---- MODULE Spec2Model ----
(***************************************************************************)
(* Byte-level model of the loadcell datalogger log-file reader             *)
(* (tools/loadcell_parser/parser.py) and integrity validator               *)
(* (tools/loadcell_parser/validator.py).                                   *)
(*                                                                         *)
(* A log file is a sequence of bytes.  The model keeps the file bytes, the *)
(* LogFile object built from them, one iter_adc generator, one iter_imu    *)
(* generator, one combined records() pass and one validate_file run, each  *)
(* with its own read cursor.                                               *)
(***************************************************************************)
EXTENDS Integers, Sequences, FiniteSets, TLC

\* ------------------------------------------------------------------------
\* Numbers.  Sample counts, rates, signed 32-bit and 16-bit fields are
\* integers.  Unsigned 32-bit and 64-bit fields (magic, checksum, timestamp,
\* footer totals) can exceed the integer range of the model checker and are
\* kept as their base-65536 digits, most significant first: <<hi, lo>> for
\* 32 bits, <<d3, d2, d1, d0>> for 64 bits.  The digits determine the value
\* and the value the digits, so equality of digits is equality of values.
\* ------------------------------------------------------------------------
W32(n) == <<n \div 65536, n % 65536>>
W64(n) == <<0, 0, n \div 65536, n % 65536>>

\* ------------------------------------------------------------------------
\* Format constants (parser.py, "Constants from binary_format.h")
\* ------------------------------------------------------------------------
FILE_MAGIC == <<18252, 17228>>      \* 0x474C434C
FOOTER_MAGIC == <<61447, 61447>>    \* 0xF007F007
FORMAT_VERSION == 1
HEADER_SIZE == 64
ADC_RECORD_SIZE == 12
IMU_RECORD_SIZE == 16
FOOTER_SIZE == 32
END_MARKER == 255

\* ------------------------------------------------------------------------
\* Bytes and fixed-width little-endian fields (struct.unpack_from '<...')
\* ------------------------------------------------------------------------
Min(a, b) == IF a < b THEN a ELSE b

\* '<B', '<H' and '<I' fields that are used as integers: k bytes at 0-based
\* offset off, least significant byte first.
RECURSIVE Unsigned(_, _, _)
Unsigned(data, off, k) ==
    IF k = 0 THEN 0
    ELSE data[off + 1] + 256 * Unsigned(data, off + 1, k - 1)

\* '<I' as digits.
U32(data, off) == <<Unsigned(data, off + 2, 2), Unsigned(data, off, 2)>>

\* '<Q' as digits.
U64(data, off) ==
    <<Unsigned(data, off + 6, 2), Unsigned(data, off + 4, 2),
      Unsigned(data, off + 2, 2), Unsigned(data, off, 2)>>

\* '<i': two's complement, 32 bits.
Signed32(data, off) ==
    LET b3 == data[off + 4]
    IN  Unsigned(data, off, 3)
          + 16777216 * (IF b3 >= 128 THEN b3 - 256 ELSE b3)

\* '<h': two's complement, 16 bits.
Signed16(data, off) ==
    LET u == Unsigned(data, off, 2)
    IN  IF u >= 32768 THEN u - 65536 ELSE u

\* The k-byte little-endian two's-complement encoding of the integer n (how
\* the producer lays a field out).
RECURSIVE LE(_, _)
LE(n, k) == IF k = 0 THEN <<>> ELSE <<n % 256>> \o LE(n \div 256, k - 1)

\* The little-endian bytes of a 32-bit value given as digits.
LEW32(w) == LE(w[2], 2) \o LE(w[1], 2)

Zeros(k) == [i \in 1..k |-> 0]

\* ------------------------------------------------------------------------
\* CRC-32 as binascii.crc32 computes it (validator.py crc32_ieee); the
\* 32-bit register is kept as digits <<hi, lo>>.
\* ------------------------------------------------------------------------
RECURSIVE XorBits(_, _, _)
XorBits(a, b, n) ==
    IF n = 0 THEN 0
    ELSE (((a % 2) + (b % 2)) % 2) + 2 * XorBits(a \div 2, b \div 2, n - 1)

XorNibble == [a \in 0..15 |-> [b \in 0..15 |-> XorBits(a, b, 4)]]

RECURSIVE XorN(_, _, _)
XorN(a, b, nibbles) ==
    IF nibbles = 0 THEN 0
    ELSE XorNibble[a % 16][b % 16] + 16 * XorN(a \div 16, b \div 16, nibbles - 1)

Xor8(a, b) == XorN(a, b, 2)
Xor32(v, w) == <<XorN(v[1], w[1], 4), XorN(v[2], w[2], 4)>>

CRC_POLY_REFLECTED == <<60856, 33568>>   \* 0xEDB88320
ALL_ONES == <<65535, 65535>>             \* 0xFFFFFFFF

ShiftRight1(c) == <<c[1] \div 2, (c[2] \div 2) + 32768 * (c[1] % 2)>>
ShiftRight8(c) == <<c[1] \div 256, (c[2] \div 256) + 256 * (c[1] % 256)>>

RECURSIVE CrcShift(_, _)
CrcShift(c, n) ==
    IF n = 0 THEN c
    ELSE CrcShift(IF c[2] % 2 = 1 THEN Xor32(ShiftRight1(c), CRC_POLY_REFLECTED)
                  ELSE ShiftRight1(c), n - 1)

CrcTable == [i \in 0..255 |-> CrcShift(<<0, i>>, 8)]

\* One table-driven step of the register c for the byte b.
CrcStep(c, b) == Xor32(CrcTable[Xor8(c[2] % 256, b)], ShiftRight8(c))

\* The steps for data[lo..hi] in order.  The range is halved and each half's
\* result is bound as a value before the next half starts, which keeps the
\* evaluation depth logarithmic in the length of the range.
RECURSIVE CrcBytes(_, _, _, _)
CrcBytes(c, data, lo, hi) ==
    IF lo > hi THEN c
    ELSE IF lo = hi THEN CHOOSE r \in {CrcStep(x, data[lo]) : x \in {c}} : TRUE
    ELSE LET mid == (lo + hi) \div 2
         IN  CHOOSE r \in {CrcBytes(x, data, mid + 1, hi) :
                             x \in {CrcBytes(c, data, lo, mid)}} : TRUE

\* A checksum that does not see the top bit of a byte.
crc32_ieee_Low7(data, crc) ==
    Xor32(CrcBytes(Xor32(crc, ALL_ONES), [i \in 1..Len(data) |-> data[i] % 128],
                   1, Len(data)), ALL_ONES)

\* A checksum without the final complement.
crc32_ieee_NoFinalXor(data, crc) == CrcBytes(Xor32(crc, ALL_ONES), data, 1, Len(data))

\* binascii.crc32(data, crc) & 0xFFFFFFFF: the register starts at the
\* complement of crc and the result is complemented again.
crc32_ieee(data, crc) == Xor32(CrcBytes(Xor32(crc, ALL_ONES), data, 1, Len(data)), ALL_ONES)

\* ------------------------------------------------------------------------
\* Bounds of the model
\* ------------------------------------------------------------------------
MaxRecords == 3     \* primary records written to a generated file
MaxFlipRecords == 2 \* primary records of a file whose bits are flipped
MaxPassRecords == 2 \* primary records of a file read by passes side by side
JumpSize == 2       \* sequence numbers skipped by an injected forward jump

\* ------------------------------------------------------------------------
\* The files the model reads.  A file is produced the way the logger lays it
\* out: the 64-byte header, n primary records, one secondary record after
\* every R-th primary record (R = adc_rate \div imu_rate), then an ending.
\* A generated file carries at most one anomaly.
\* ------------------------------------------------------------------------
Rates == {<<1000, 0>>, <<1000, 1000>>, <<1000, 400>>, <<100, 1000>>}

Endings == {"eof", "cut5", "cut16", "sentinel", "footer", "footer0",
            "footerbad", "sentfooter", "missing",
     "footermagic"}

WriterRatio(g) == IF g.imu_rate > 0 THEN g.adc_rate \div g.imu_rate ELSE 0

ImuWritten(g) == IF WriterRatio(g) > 0 THEN g.n \div WriterRatio(g) ELSE 0

NoAnomaly == [kind |-> "none", at |-> 0]

Anomalies(n, nimu) ==
    {NoAnomaly}
      \cup {[kind |-> k, at |-> i] : k \in {"jump", "back", "ff"}, i \in 1..n}
      \cup {[kind |-> "ffimu", at |-> k] : k \in 1..nimu}

\* What happens to the file on disk after it was written and read once:
\* nothing, one bit of one byte flips (at = offset of the byte), the
\* header's magic is overwritten, or the magic is overwritten and the
\* footer's checksum is rewritten to match.
NoDamage == [kind |-> "none", at |-> 0, bit |-> 0]
MagicDamage == [kind |-> "magic", at |-> 0, bit |-> 0]
MagicFixDamage == [kind |-> "magicfix", at |-> 0, bit |-> 0]

\* What happens to files of g in the general specification: the magic of a
\* file with a valid header and undisturbed records may be overwritten.
MayOf(g) ==
    IF g.header = "ok" /\ g.anomaly = NoAnomaly
         /\ g.ending \in {"eof", "sentinel", "footer", "footer0", "sentfooter"}
    THEN "magic" ELSE "none"

\* What the producer wrote into the header's magic, version and size fields;
\* "zeros" is a header of 64 zero bytes; "tailmagic" is a good header that
\* holds the bytes of the footer magic 32 bytes before the end of a file of
\* fewer than 96 bytes (in the loadcell id or in the flags and scales).
HeaderKinds == {"ok", "badmagic", "badversion", "badsize", "zeros", "tailmagic"}

Gens ==
    {g \in [adc_rate : {r[1] : r \in Rates}, imu_rate : {r[2] : r \in Rates},
            n : 0..MaxRecords, ending : Endings, header : HeaderKinds,
            anomaly : Anomalies(MaxRecords, MaxRecords),
            may : {"none", "magic"}, damage : {NoDamage}] :
        /\ <<g.adc_rate, g.imu_rate>> \in Rates
        /\ g.may = MayOf(g)
        /\ g.anomaly \in Anomalies(g.n, ImuWritten(g))
        /\ g.header # "ok" => g.anomaly = NoAnomaly /\ g.ending # "missing"
        /\ g.ending = "footermagic" => g.anomaly = NoAnomaly /\ g.header = "ok"
        /\ g.header = "zeros" => g.n = 0 /\ g.imu_rate = 0 /\ g.ending = "footer"
        /\ g.header = "tailmagic" =>
              /\ g.imu_rate = 0 /\ g.ending = "eof"
              /\ g.n * ADC_RECORD_SIZE + 4 <= FOOTER_SIZE
        /\ g.ending = "missing" => g.n = 0 /\ g.imu_rate = 0}

\* Field values of the i-th primary record (i = 1..n).
TsOf(g, i) == IF g.anomaly.kind = "ff" /\ g.anomaly.at = i THEN 255 ELSE 100 * i
RawOf(i) == IF i % 2 = 1 THEN 0 - (1000 * i) ELSE 1000 * i
SeqShift(g, i) ==
    IF g.anomaly.kind = "jump" /\ i >= g.anomaly.at THEN JumpSize
    ELSE IF g.anomaly.kind = "back" /\ i >= g.anomaly.at THEN 0 - 1
    ELSE 0
SeqOf(g, i) == (i - 1) + SeqShift(g, i)

AdcBytes(ts, raw, seq) == LE(ts, 4) \o LE(raw, 4) \o LE(seq, 4)

ImuBytes(ts, ax, ay, az, gx, gy, gz) ==
    LE(ts, 4) \o LE(ax, 2) \o LE(ay, 2) \o LE(az, 2)
      \o LE(gx, 2) \o LE(gy, 2) \o LE(gz, 2)

\* The k-th secondary record (k = 1..), written after primary record k * R.
ImuBlock(g, k) ==
    ImuBytes(IF g.anomaly.kind = "ffimu" /\ g.anomaly.at = k THEN 255
             ELSE 100 * k * WriterRatio(g),
             k, 0 - k, 16384, 0 - 1, 0, k)

\* The i-th primary record and the secondary record that follows it, if any.
Block(g, i) ==
    AdcBytes(TsOf(g, i), RawOf(i), SeqOf(g, i))
      \o (IF WriterRatio(g) > 0 /\ i % WriterRatio(g) = 0
          THEN ImuBlock(g, i \div WriterRatio(g)) ELSE <<>>)

RECURSIVE DataRegion(_, _)
DataRegion(g, i) == IF i = 0 THEN <<>> ELSE DataRegion(g, i - 1) \o Block(g, i)

HeaderBytes(magic, version, header_size, adc_rate, imu_rate) ==
    LEW32(magic) \o LE(version, 2) \o LE(header_size, 2)
      \o LE(adc_rate, 4) \o LE(imu_rate, 4)
      \o LE(0, 8)                            \* start timestamp
      \o <<76, 67, 48, 49>> \o Zeros(28)     \* loadcell id "LC01", NUL padded
      \o <<0, 1, 24, 0, 0>> \o Zeros(3)      \* flags, gain, bits, scales, reserved

FooterBytes(total_adc, total_imu, dropped, end_ts, crc) ==
    LEW32(FOOTER_MAGIC) \o LE(total_adc, 8) \o LE(total_imu, 8)
      \o LE(dropped, 4) \o LE(end_ts, 4) \o LEW32(crc)

SentinelBlock == [i \in 1..ADC_RECORD_SIZE |-> END_MARKER]

DropLast(s, k) == SubSeq(s, 1, Len(s) - k)

Body(g) ==
    IF g.header = "zeros" THEN Zeros(HEADER_SIZE)
    ELSE IF g.header = "tailmagic"
    THEN LET h == HeaderBytes(FILE_MAGIC, FORMAT_VERSION, HEADER_SIZE,
                              g.adc_rate, g.imu_rate)
             at == HEADER_SIZE + g.n * ADC_RECORD_SIZE - FOOTER_SIZE
         IN  SubSeq(h, 1, at) \o LEW32(FOOTER_MAGIC) \o SubSeq(h, at + 5, HEADER_SIZE)
               \o DataRegion(g, g.n)
    ELSE
    HeaderBytes(IF g.header = "badmagic" THEN FOOTER_MAGIC ELSE FILE_MAGIC,
                IF g.header = "badversion" THEN FORMAT_VERSION + 1 ELSE FORMAT_VERSION,
                IF g.header = "badsize" THEN HEADER_SIZE + ADC_RECORD_SIZE ELSE HEADER_SIZE,
                g.adc_rate, g.imu_rate)
      \o DataRegion(g, g.n)

FooterFor(g, covered, crcKind) ==
    LET good == crc32_ieee(covered, <<0, 0>>)
    IN  FooterBytes(g.n, ImuWritten(g),
                    IF g.anomaly.kind = "jump" THEN JumpSize ELSE 0,
                    100 * g.n,
                    IF crcKind = "zero" THEN <<0, 0>>
                    ELSE IF crcKind = "bad" THEN Xor32(good, <<0, 1>>)
                    ELSE good)

\* The file as the producer wrote it.
WrittenFile(g) ==
    LET body == Body(g)
    IN  CASE g.ending = "eof" -> body
          [] g.ending = "cut5" -> DropLast(body, 5)
          [] g.ending = "cut16" -> DropLast(body, 16)
          [] g.ending = "sentinel" -> body \o SentinelBlock
          [] g.ending = "footer" -> body \o FooterFor(g, body, "good")
          [] g.ending = "footer0" -> body \o FooterFor(g, body, "zero")
          [] g.ending = "footerbad" -> body \o FooterFor(g, body, "bad")
          [] g.ending = "missing" -> <<>>
          [] g.ending = "footermagic" ->
                body \o [FooterFor(g, body, "good") EXCEPT ![1] = @ + 1]
          [] g.ending = "sentfooter" ->
                (body \o SentinelBlock) \o FooterFor(g, body \o SentinelBlock, "good")

\* The byte with one bit flipped.
FlipBit(byte, bit) ==
    LET w == <<1, 2, 4, 8, 16, 32, 64, 128>>[bit + 1]
    IN  IF (byte \div w) % 2 = 1 THEN byte - w ELSE byte + w

\* A magic that is not the format's: "XXXX".
WRONG_MAGIC_BYTES == <<88, 88, 88, 88>>

Damaged(bytes, d) ==
    CASE d.kind = "none" -> bytes
      [] d.kind = "flip" -> [bytes EXCEPT ![d.at + 1] = FlipBit(@, d.bit)]
      [] d.kind = "magic" -> WRONG_MAGIC_BYTES \o SubSeq(bytes, 5, Len(bytes))
      [] d.kind = "magicfix" ->
            LET covered == WRONG_MAGIC_BYTES \o SubSeq(bytes, 5, Len(bytes) - FOOTER_SIZE)
            IN  covered \o SubSeq(bytes, Len(bytes) - FOOTER_SIZE + 1, Len(bytes) - 4)
                  \o LEW32(crc32_ieee(covered, <<0, 0>>))

\* The file on disk.
FileOf(g) == Damaged(WrittenFile(g), g.damage)

\* The damage that can happen to the file: by g.may, the magic (and with it
\* the checksum of a footer that has one), or any one bit of the data region
\* of a file that ends with a footer.
Damages(g) ==
    CASE g.may = "magic" ->
            {MagicDamage} \cup (IF g.ending \in {"footer", "sentfooter"}
                                THEN {MagicFixDamage} ELSE {})
      [] g.may = "bitflip" ->
            {[kind |-> "flip", at |-> a, bit |-> b] :
                a \in HEADER_SIZE..(Len(WrittenFile(g)) - FOOTER_SIZE - 1),
                b \in 0..7}
      [] OTHER -> {}

\* The flip is of the sign bit of a written primary record's sequence number.
\* The validator's gap arithmetic on such a number (about 2^31 away from its
\* neighbours) does not fit the 32-bit integers of the model checker.
SequenceSignFlip(g, d) ==
    /\ d.kind = "flip" /\ d.bit = 7
    /\ \E i \in 1..g.n :
          d.at = HEADER_SIZE + (i - 1) * ADC_RECORD_SIZE
                   + (IF WriterRatio(g) > 0
                      THEN ((i - 1) \div WriterRatio(g)) * IMU_RECORD_SIZE ELSE 0)
                   + ADC_RECORD_SIZE - 1

\* ------------------------------------------------------------------------
\* State
\* ------------------------------------------------------------------------
VARIABLES
    gen,        \* how the file on disk was produced (never read by the code)
    consumer,   \* which client of the library runs (never read by the code)
    exists,     \* whether the path names a file
    file,       \* the bytes of the file
    log,        \* the LogFile object the generators belong to
    adc,        \* one iter_adc generator
    imu,        \* one iter_imu generator
    rec,        \* one combined records() pass
    val,        \* one validate_file call
    before      \* what the client got from the file before it was damaged

vars == <<gen, consumer, exists, file, log, adc, imu, rec, val, before>>

\* f.read(n) at cursor position pos: at most n bytes, fewer at end of file.
Read(pos, n) == SubSeq(file, pos + 1, Min(pos + n, Len(file)))

\* ------------------------------------------------------------------------
\* parser.py: value types and their decoders
\* ------------------------------------------------------------------------
\* The bytes of data before its first NUL (the null-terminated loadcell id).
RECURSIVE UntilNul(_, _)
UntilNul(data, i) ==
    IF i > Len(data) \/ data[i] = 0 THEN <<>>
    ELSE <<data[i]>> \o UntilNul(data, i + 1)

FileHeader_from_bytes(data) ==
    [magic |-> U32(data, 0),
     version |-> Unsigned(data, 4, 2),
     header_size |-> Unsigned(data, 6, 2),
     adc_sample_rate_hz |-> Unsigned(data, 8, 4),
     imu_sample_rate_hz |-> Unsigned(data, 12, 4),
     start_timestamp_us |-> U64(data, 16),
     loadcell_id |-> UntilNul(SubSeq(data, 25, 56), 1),
     flags |-> data[57],
     adc_gain |-> data[58],
     adc_bits |-> data[59],
     imu_accel_scale |-> data[60],
     imu_gyro_scale |-> data[61]]

\* A validity predicate that looks at the magic only.
FileHeader_is_valid_MagicOnly(h) == h.magic = FILE_MAGIC

FileHeader_is_valid(h) ==
    /\ h.magic = FILE_MAGIC
    /\ h.version = FORMAT_VERSION
    /\ h.header_size = HEADER_SIZE

\* A decoder that takes the sequence number from the raw_adc field.
ADCRecord_from_bytes_SeqFromRaw(data) ==
    [timestamp_offset_us |-> U32(data, 0),
     raw_adc |-> Signed32(data, 4),
     sequence_num |-> Signed32(data, 4)]

ADCRecord_from_bytes(data) ==
    [timestamp_offset_us |-> U32(data, 0),
     raw_adc |-> Signed32(data, 4),
     sequence_num |-> Signed32(data, 8)]

IMURecord_from_bytes(data) ==
    [timestamp_offset_us |-> U32(data, 0),
     accel_x |-> Signed16(data, 4),
     accel_y |-> Signed16(data, 6),
     accel_z |-> Signed16(data, 8),
     gyro_x |-> Signed16(data, 10),
     gyro_y |-> Signed16(data, 12),
     gyro_z |-> Signed16(data, 14)]

\* Python's None for an Optional[FileFooter].
NoFooter ==
    [none |-> TRUE, magic |-> <<0, 0>>, total_adc_samples |-> W64(0),
     total_imu_samples |-> W64(0), dropped_samples |-> <<0, 0>>,
     end_timestamp_us |-> <<0, 0>>, crc32 |-> <<0, 0>>]

FileFooter_from_bytes(data) ==
    IF Len(data) < FOOTER_SIZE THEN NoFooter
    ELSE IF U32(data, 0) # FOOTER_MAGIC THEN NoFooter
    ELSE [none |-> FALSE,
          magic |-> U32(data, 0),
          total_adc_samples |-> U64(data, 4),
          total_imu_samples |-> U64(data, 12),
          dropped_samples |-> U32(data, 20),
          end_timestamp_us |-> U32(data, 24),
          crc32 |-> U32(data, 28)]

FileFooter_is_valid(f) == f.magic = FOOTER_MAGIC

NoHeader == FileHeader_from_bytes(Zeros(HEADER_SIZE))

\* A constructor that pads a short header with zero bytes instead of raising.
LogFile_init_PadsShortHeader ==
    IF ~exists
    THEN [state |-> "raised", header |-> NoHeader, footer |-> NoFooter]
    ELSE LET data == Read(0, HEADER_SIZE)
         IN  [state |-> "ok",
              header |-> FileHeader_from_bytes(data \o Zeros(HEADER_SIZE - Len(data))),
              footer |-> NoFooter]

\* LogFile.__init__: the header from the first 64 bytes, the footer from the
\* last 32.  A missing file or a short header raises.
LogFile_init ==
    IF ~exists \/ Len(Read(0, HEADER_SIZE)) < HEADER_SIZE
    THEN [state |-> "raised", header |-> NoHeader, footer |-> NoFooter]
    ELSE [state |-> "ok",
          header |-> FileHeader_from_bytes(Read(0, HEADER_SIZE)),
          footer |-> FileFooter_from_bytes(Read(Len(file) - FOOTER_SIZE, FOOTER_SIZE))]

\* A ratio that is taken only from a valid header.
ImuDecimation_ValidHeaderOnly(header) ==
    IF FileHeader_is_valid(header) /\ header.imu_sample_rate_hz > 0
    THEN header.adc_sample_rate_hz \div header.imu_sample_rate_hz
    ELSE 0

\* A ratio that is rounded up to 1 when the secondary rate is the higher one.
ImuDecimation_AtLeastOne(header) ==
    IF header.imu_sample_rate_hz > 0
    THEN IF header.adc_sample_rate_hz < header.imu_sample_rate_hz THEN 1
         ELSE header.adc_sample_rate_hz \div header.imu_sample_rate_hz
    ELSE 0

\* The interleave ratio every pass computes from the header.
ImuDecimation(header) ==
    IF header.imu_sample_rate_hz > 0
    THEN header.adc_sample_rate_hz \div header.imu_sample_rate_hz
    ELSE 0

\* A reader that takes only an empty read for the end of the file.
ShortRead_OnlyEmpty(data, size) == Len(data) = 0

\* len(data) < size after f.read(size).
ShortRead(data, size) == Len(data) < size

\* A reader that looks for the end marker in the last byte of the block.
IsEndRecord_LastByte(data) == data[Len(data)] = END_MARKER

\* data[0] == 0xFF
IsEndRecord(data) == data[1] = END_MARKER

\* What the code does with a block it has read where a primary record is due:
\* the short-read test, the end-record test, then ADCRecord.from_bytes.
\* data[0] of an empty block and from_bytes of a short block raise.
PrimaryOutcome(data) ==
    IF ShortRead(data, ADC_RECORD_SIZE) THEN "end"
    ELSE IF Len(data) = 0 THEN "raise"
    ELSE IF IsEndRecord(data) THEN "end"
    ELSE IF Len(data) < ADC_RECORD_SIZE THEN "raise"
    ELSE "record"

\* iter_imu reads the primary block without decoding it: the short-read test
\* and the end-record test only.
SkippedOutcome(data) ==
    IF ShortRead(data, ADC_RECORD_SIZE) THEN "end"
    ELSE IF Len(data) = 0 THEN "raise"
    ELSE IF IsEndRecord(data) THEN "end"
    ELSE "record"

\* The same for a block read where a secondary record is due and decoded:
\* the short-read test, then IMURecord.from_bytes.
SecondaryOutcome(data) ==
    IF ShortRead(data, IMU_RECORD_SIZE) THEN "end"
    ELSE IF Len(data) < IMU_RECORD_SIZE THEN "raise"
    ELSE "record"

\* How a generator is left when its loop ends or an exception leaves it.
EndPc(outcome) == IF outcome = "raise" THEN "raised" ELSE "done"

Max(a, b) == IF a > b THEN a ELSE b

\* ------------------------------------------------------------------------
\* LogFile.iter_adc
\* ------------------------------------------------------------------------
NewPass ==
    [pc |-> "init", open |-> FALSE, pos |-> 0, sample_count |-> 0,
     imu_decimation |-> 0, out |-> <<>>, iters |-> 0, held |-> 0]

\* From the top of the while loop to the next yield or the end of the pass.
AdcLoop(a, pos, count) ==
    LET data == Read(pos, ADC_RECORD_SIZE)
        b == [a EXCEPT !.pos = pos + Len(data), !.sample_count = count,
                       !.iters = @ + 1, !.held = Max(@, Len(data))]
    IN  IF PrimaryOutcome(data) # "record"
        THEN [b EXCEPT !.pc = EndPc(PrimaryOutcome(data)), !.open = FALSE]
        ELSE [b EXCEPT !.pc = "yielded",
                       !.out = Append(@, [off |-> pos,
                                          rec |-> ADCRecord_from_bytes(data)])]

\* The first next(): open the file, seek past the header, enter the loop.
AdcStart(a) ==
    AdcLoop([a EXCEPT !.open = TRUE,
                      !.imu_decimation = ImuDecimation(log.header)],
            HEADER_SIZE, 0)

\* A reader that skips the secondary block one primary record early.
AdcResume_OneEarly(a) ==
    LET count == a.sample_count + 1
    IN  IF a.imu_decimation > 0 /\ (count + 1) % a.imu_decimation = 0
        THEN AdcLoop([a EXCEPT !.held = Max(@, IMU_RECORD_SIZE)],
                     a.pos + IMU_RECORD_SIZE, count)
        ELSE AdcLoop(a, a.pos, count)

\* A reader whose passes share one cursor: iter_adc goes on from wherever
\* iter_imu has moved it.
AdcResume_SharedCursor(a) ==
    LET b == [a EXCEPT !.pos = Max(a.pos, imu.pos)]
        count == b.sample_count + 1
    IN  IF b.imu_decimation > 0 /\ count % b.imu_decimation = 0
        THEN AdcLoop([b EXCEPT !.held = Max(@, IMU_RECORD_SIZE)],
                     b.pos + IMU_RECORD_SIZE, count)
        ELSE AdcLoop(b, b.pos, count)

\* A later next(): the statements after the yield, then the loop again.
AdcResume(a) ==
    LET count == a.sample_count + 1
    IN  IF a.imu_decimation > 0 /\ count % a.imu_decimation = 0
        THEN LET imu_data == Read(a.pos, IMU_RECORD_SIZE)
             IN  IF ShortRead(imu_data, IMU_RECORD_SIZE)
                 THEN [a EXCEPT !.pc = "done", !.open = FALSE,
                                !.pos = @ + Len(imu_data),
                                !.sample_count = count,
                                !.held = Max(@, Len(imu_data))]
                 ELSE AdcLoop([a EXCEPT !.held = Max(@, IMU_RECORD_SIZE)],
                              a.pos + IMU_RECORD_SIZE, count)
        ELSE AdcLoop(a, a.pos, count)

\* An abandoned generator that keeps its file open.
ClosePass_LeavesOpen(a) == [a EXCEPT !.pc = "closed"]

\* generator.close(): the with-block closes the file.
ClosePass(a) == [a EXCEPT !.pc = "closed", !.open = FALSE]

\* ------------------------------------------------------------------------
\* LogFile.iter_imu
\* ------------------------------------------------------------------------
\* From the top of the while loop to the next yield or the end of the pass.
RECURSIVE ImuLoop(_, _, _, _)
ImuLoop(m, pos, count, iters) ==
    LET adc_data == Read(pos, ADC_RECORD_SIZE)
    IN  IF SkippedOutcome(adc_data) # "record"
        THEN [m EXCEPT !.pc = EndPc(SkippedOutcome(adc_data)), !.open = FALSE,
                       !.pos = pos + Len(adc_data), !.sample_count = count,
                       !.iters = iters + 1, !.held = Max(@, Len(adc_data))]
        ELSE IF (count + 1) % m.imu_decimation = 0
        THEN LET imu_data == Read(pos + ADC_RECORD_SIZE, IMU_RECORD_SIZE)
                 b == [m EXCEPT !.pos = pos + ADC_RECORD_SIZE + Len(imu_data),
                                !.sample_count = count + 1,
                                !.iters = iters + 1,
                                !.held = Max(@, Max(ADC_RECORD_SIZE, Len(imu_data)))]
             IN  IF SecondaryOutcome(imu_data) # "record"
                 THEN [b EXCEPT !.pc = EndPc(SecondaryOutcome(imu_data)),
                                !.open = FALSE]
                 ELSE [b EXCEPT !.pc = "yielded",
                                !.out = Append(@, [off |-> pos + ADC_RECORD_SIZE,
                                                   rec |-> IMURecord_from_bytes(imu_data)])]
        ELSE ImuLoop([m EXCEPT !.held = Max(@, ADC_RECORD_SIZE)],
                     pos + ADC_RECORD_SIZE, count + 1, iters + 1)

\* The first next(): open, seek, return at once when there is no interleave.
ImuStart(m) ==
    LET d == ImuDecimation(log.header)
    IN  IF d = 0
        THEN [m EXCEPT !.pc = "done", !.open = FALSE, !.pos = HEADER_SIZE]
        ELSE ImuLoop([m EXCEPT !.open = TRUE, !.imu_decimation = d],
                     HEADER_SIZE, 0, 0)

ImuResume(m) == ImuLoop(m, m.pos, m.sample_count, m.iters)

\* ------------------------------------------------------------------------
\* The combined record sequence (LogFile.records() of the system tests; the
\* record stream decoder's merged sequence): every next() yields one record,
\* a primary record or the secondary record that follows it in the file.
\* ------------------------------------------------------------------------
NewRecPass ==
    [pc |-> "init", open |-> FALSE, pos |-> 0, count |-> 0, ratio |-> 0,
     due |-> FALSE, out |-> <<>>]

RecStep(r) ==
    IF r.due
    THEN LET data == Read(r.pos, IMU_RECORD_SIZE)
         IN  IF ShortRead(data, IMU_RECORD_SIZE)
             THEN [r EXCEPT !.pc = "done", !.open = FALSE, !.pos = @ + Len(data)]
             ELSE [r EXCEPT !.pc = "yielded", !.pos = @ + IMU_RECORD_SIZE,
                            !.due = FALSE,
                            !.out = Append(@, [kind |-> "imu", off |-> r.pos,
                                               rec |-> IMURecord_from_bytes(data)])]
    ELSE LET data == Read(r.pos, ADC_RECORD_SIZE)
         IN  IF ShortRead(data, ADC_RECORD_SIZE) \/ IsEndRecord(data)
             THEN [r EXCEPT !.pc = "done", !.open = FALSE, !.pos = @ + Len(data)]
             ELSE [r EXCEPT !.pc = "yielded", !.pos = @ + ADC_RECORD_SIZE,
                            !.count = @ + 1,
                            !.due = r.ratio > 0 /\ (r.count + 1) % r.ratio = 0,
                            !.out = Append(@, [kind |-> "adc", off |-> r.pos,
                                               rec |-> ADCRecord_from_bytes(data)])]

RecStart(r) ==
    RecStep([r EXCEPT !.open = TRUE, !.pos = HEADER_SIZE,
                      !.ratio = ImuDecimation(log.header)])

\* ------------------------------------------------------------------------
\* validator.py: ValidationReport and validate_file
\* ------------------------------------------------------------------------
NewReport ==
    [is_valid |-> TRUE, header_valid |-> TRUE, footer_valid |-> TRUE,
     footer_present |-> TRUE, crc_valid |-> TRUE,
     crc_expected |-> <<0, 0>>, crc_computed |-> <<0, 0>>,
     adc_count |-> 0, imu_count |-> 0,
     expected_adc_count |-> W64(0), expected_imu_count |-> W64(0),
     gaps |-> <<>>, total_missing |-> 0, errors |-> <<>>, warnings |-> <<>>]

add_error(report, msg) ==
    [report EXCEPT !.errors = Append(@, msg), !.is_valid = FALSE]

\* A report whose warnings count against validity.
add_warning_Invalidates(report, msg) ==
    [report EXCEPT !.warnings = Append(@, msg), !.is_valid = FALSE]

add_warning(report, msg) == [report EXCEPT !.warnings = Append(@, msg)]

\* "# Validate header"
CheckHeader(report, lg) ==
    IF ~FileHeader_is_valid(lg.header)
    THEN add_error([report EXCEPT !.header_valid = FALSE], "Invalid header magic")
    ELSE report

\* A validator that reports a missing footer as an error.
CheckFooter_MissingIsError(report, lg) ==
    IF lg.footer.none
    THEN add_error([report EXCEPT !.footer_present = FALSE,
                                  !.footer_valid = FALSE],
                   "Footer missing - file may have ended uncleanly")
    ELSE IF ~FileFooter_is_valid(lg.footer)
    THEN add_error([report EXCEPT !.footer_valid = FALSE], "Invalid footer magic")
    ELSE [report EXCEPT !.expected_adc_count = lg.footer.total_adc_samples,
                        !.expected_imu_count = lg.footer.total_imu_samples]

\* "# Check footer"
CheckFooter(report, lg) ==
    IF lg.footer.none
    THEN add_warning([report EXCEPT !.footer_present = FALSE,
                                    !.footer_valid = FALSE],
                     "Footer missing - file may have ended uncleanly")
    ELSE IF ~FileFooter_is_valid(lg.footer)
    THEN add_error([report EXCEPT !.footer_valid = FALSE], "Invalid footer magic")
    ELSE [report EXCEPT !.expected_adc_count = lg.footer.total_adc_samples,
                        !.expected_imu_count = lg.footer.total_imu_samples]

\* if check_crc and log.footer and log.footer.crc32 != 0
CrcWanted(check_crc, lg) ==
    check_crc /\ ~lg.footer.none /\ lg.footer.crc32 # <<0, 0>>

\* A validator that runs the checksum over the footer too.
CrcData_WithFooter == Read(0, Len(file))

\* The bytes the checksum is computed over: f.seek(0); f.read(file_size - 32).
CrcData == Read(0, Len(file) - FOOTER_SIZE)

\* "# Calculate CRC if requested"
CheckCrc(report, lg, check_crc) ==
    IF CrcWanted(check_crc, lg)
    THEN LET r == [report EXCEPT !.crc_computed = crc32_ieee(CrcData, <<0, 0>>),
                                 !.crc_expected = lg.footer.crc32]
         IN  IF r.crc_computed # r.crc_expected
             THEN add_error([r EXCEPT !.crc_valid = FALSE],
                            "CRC32 mismatch - file may be corrupted")
             ELSE r
    ELSE report

NewValidation ==
    [pc |-> "idle", check_crc |-> FALSE, check_gaps |-> FALSE, open |-> FALSE,
     pos |-> 0, adc_count |-> 0, imu_count |-> 0, expected_seq |-> 0,
     record_index |-> 0, imu_decimation |-> 0, report |-> NewReport,
     iters |-> 0, held |-> 0]

\* validate_file up to the record loop: the early returns, the header and
\* footer checks, the checksum, the interleave ratio.
ValidateStart(check_crc, check_gaps) ==
    LET v == [NewValidation EXCEPT !.check_crc = check_crc,
                                   !.check_gaps = check_gaps]
        returned(msg) == [v EXCEPT !.pc = "done",
                                   !.report = add_error(NewReport, msg)]
    IN  IF ~exists THEN returned("File not found")
        ELSE IF Len(file) < HEADER_SIZE THEN returned("File too small")
        ELSE LET lg == LogFile_init
             IN  IF lg.state # "ok" THEN returned("Failed to parse file")
                 ELSE [v EXCEPT
                         !.pc = "loop", !.open = TRUE, !.pos = HEADER_SIZE,
                         !.report = CheckCrc(CheckFooter(CheckHeader(NewReport, lg), lg),
                                             lg, check_crc),
                         !.imu_decimation = ImuDecimation(lg.header),
                         !.held = IF CrcWanted(check_crc, lg)
                                  THEN Max(HEADER_SIZE, Len(CrcData))
                                  ELSE HEADER_SIZE]

\* A validator whose counter steps by one from the expected number instead
\* of following the observed one.
CheckGap_CountsOn(v, a) ==
    IF ~v.check_gaps THEN v
    ELSE LET gap == [position |-> v.record_index,
                     expected_seq |-> v.expected_seq,
                     actual_seq |-> a.sequence_num,
                     missing_count |-> a.sequence_num - v.expected_seq,
                     timestamp_us |-> a.timestamp_offset_us]
             r == IF a.sequence_num # v.expected_seq
                  THEN [v.report EXCEPT !.gaps = Append(@, gap),
                                        !.total_missing = @ + gap.missing_count]
                  ELSE v.report
         IN  [v EXCEPT !.report = r, !.expected_seq = v.expected_seq + 1]

\* A validator that looks for gaps whether or not check_gaps is set.
CheckGap_IgnoresFlag(v, a) ==
    LET gap == [position |-> v.record_index,
                expected_seq |-> v.expected_seq,
                actual_seq |-> a.sequence_num,
                missing_count |-> a.sequence_num - v.expected_seq,
                timestamp_us |-> a.timestamp_offset_us]
        r == IF a.sequence_num # v.expected_seq
             THEN [v.report EXCEPT !.gaps = Append(@, gap),
                                   !.total_missing = @ + gap.missing_count]
             ELSE v.report
    IN  [v EXCEPT !.report = r, !.expected_seq = a.sequence_num + 1]

\* A validator that counts missing samples only for a forward step.
CheckGap_ForwardOnly(v, a) ==
    IF ~v.check_gaps THEN v
    ELSE LET gap == [position |-> v.record_index,
                     expected_seq |-> v.expected_seq,
                     actual_seq |-> a.sequence_num,
                     missing_count |-> IF a.sequence_num > v.expected_seq
                                       THEN a.sequence_num - v.expected_seq ELSE 0,
                     timestamp_us |-> a.timestamp_offset_us]
             r == IF a.sequence_num # v.expected_seq
                  THEN [v.report EXCEPT !.gaps = Append(@, gap),
                                        !.total_missing = @ + gap.missing_count]
                  ELSE v.report
         IN  [v EXCEPT !.report = r, !.expected_seq = a.sequence_num + 1]

\* "# Check sequence gaps"
CheckGap(v, a) ==
    IF ~v.check_gaps THEN v
    ELSE LET gap == [position |-> v.record_index,
                     expected_seq |-> v.expected_seq,
                     actual_seq |-> a.sequence_num,
                     missing_count |-> a.sequence_num - v.expected_seq,
                     timestamp_us |-> a.timestamp_offset_us]
             r == IF a.sequence_num # v.expected_seq
                  THEN [v.report EXCEPT !.gaps = Append(@, gap),
                                        !.total_missing = @ + gap.missing_count]
                  ELSE v.report
         IN  [v EXCEPT !.report = r, !.expected_seq = a.sequence_num + 1]

\* A validator that compares the counts with the report's expected counts
\* whether or not a footer was found.
ValidateFinish_AlwaysCompares(v) ==
    LET r0 == [v.report EXCEPT !.adc_count = v.adc_count,
                               !.imu_count = v.imu_count]
        r1 == IF W64(v.adc_count) # r0.expected_adc_count
              THEN add_warning(r0, "ADC count mismatch") ELSE r0
        r2 == IF W64(v.imu_count) # r0.expected_imu_count
              THEN add_warning(r1, "IMU count mismatch") ELSE r1
        r3 == IF r2.gaps # <<>> THEN add_warning(r2, "Found sequence gaps") ELSE r2
    IN  [v EXCEPT !.pc = "done", !.report = r3]

\* "# Verify counts match footer" and "# Gap summary", then return.
ValidateFinish(v) ==
    LET r0 == [v.report EXCEPT !.adc_count = v.adc_count,
                               !.imu_count = v.imu_count]
        r1 == IF r0.footer_valid /\ r0.footer_present
                   /\ W64(v.adc_count) # r0.expected_adc_count
              THEN add_warning(r0, "ADC count mismatch") ELSE r0
        r2 == IF r0.footer_valid /\ r0.footer_present
                   /\ W64(v.imu_count) # r0.expected_imu_count
              THEN add_warning(r1, "IMU count mismatch") ELSE r1
        r3 == IF r2.gaps # <<>> THEN add_warning(r2, "Found sequence gaps") ELSE r2
    IN  [v EXCEPT !.pc = "done", !.report = r3]

\* A validator that counts a secondary block of any length.
ValidateLoop_CountsShortImu(v) ==
    LET data == Read(v.pos, ADC_RECORD_SIZE)
        w == [v EXCEPT !.pos = @ + Len(data), !.iters = @ + 1,
                       !.held = Max(@, Len(data))]
    IN  IF PrimaryOutcome(data) = "raise"
        THEN [w EXCEPT !.pc = "raised", !.open = FALSE]
        ELSE IF PrimaryOutcome(data) = "end"
        THEN ValidateFinish([w EXCEPT !.open = FALSE])
        ELSE LET adc_rec == ADCRecord_from_bytes(data)
                 x == [CheckGap(w, adc_rec) EXCEPT !.adc_count = @ + 1,
                                                   !.record_index = @ + 1]
             IN  IF x.imu_decimation > 0 /\ x.adc_count % x.imu_decimation = 0
                 THEN LET imu_data == Read(x.pos, IMU_RECORD_SIZE)
                      IN  [x EXCEPT !.pos = @ + Len(imu_data),
                                    !.held = Max(@, Len(imu_data)),
                                    !.imu_count = IF Len(imu_data) > 0
                                                  THEN @ + 1 ELSE @]
                 ELSE x

\* A validator that expects the secondary block one primary record early.
ValidateLoop_SecondaryOneEarly(v) ==
    LET data == Read(v.pos, ADC_RECORD_SIZE)
        w == [v EXCEPT !.pos = @ + Len(data), !.iters = @ + 1,
                       !.held = Max(@, Len(data))]
    IN  IF PrimaryOutcome(data) = "raise"
        THEN [w EXCEPT !.pc = "raised", !.open = FALSE]
        ELSE IF PrimaryOutcome(data) = "end"
        THEN ValidateFinish([w EXCEPT !.open = FALSE])
        ELSE LET adc_rec == ADCRecord_from_bytes(data)
                 x == [CheckGap(w, adc_rec) EXCEPT !.adc_count = @ + 1,
                                                   !.record_index = @ + 1]
             IN  IF x.imu_decimation > 0
                      /\ (x.adc_count + 1) % x.imu_decimation = 0
                 THEN LET imu_data == Read(x.pos, IMU_RECORD_SIZE)
                      IN  [x EXCEPT !.pos = @ + Len(imu_data),
                                    !.held = Max(@, Len(imu_data)),
                                    !.imu_count = IF Len(imu_data) >= IMU_RECORD_SIZE
                                                  THEN @ + 1 ELSE @]
                 ELSE x

\* A validator that, on a sequence number it did not expect, takes the
\* number as the expected one and reads the same block again.
ValidateLoop_RereadsAfterGap(v) ==
    LET data == Read(v.pos, ADC_RECORD_SIZE)
        w == [v EXCEPT !.pos = @ + Len(data), !.iters = @ + 1,
                       !.held = Max(@, Len(data))]
    IN  IF PrimaryOutcome(data) = "raise"
        THEN [w EXCEPT !.pc = "raised", !.open = FALSE]
        ELSE IF PrimaryOutcome(data) = "end"
        THEN ValidateFinish([w EXCEPT !.open = FALSE])
        ELSE LET adc_rec == ADCRecord_from_bytes(data)
                 x == [CheckGap(w, adc_rec) EXCEPT !.adc_count = @ + 1,
                                                   !.record_index = @ + 1]
             IN  IF v.check_gaps /\ adc_rec.sequence_num # v.expected_seq
                 THEN [v EXCEPT !.iters = @ + 1,
                                !.held = Max(@, Len(data)),
                                !.expected_seq = adc_rec.sequence_num]
                 ELSE IF x.imu_decimation > 0 /\ x.adc_count % x.imu_decimation = 0
                 THEN LET imu_data == Read(x.pos, IMU_RECORD_SIZE)
                      IN  [x EXCEPT !.pos = @ + Len(imu_data),
                                    !.held = Max(@, Len(imu_data)),
                                    !.imu_count = IF Len(imu_data) >= IMU_RECORD_SIZE
                                                  THEN @ + 1 ELSE @]
                 ELSE x

\* One iteration of "while True" in validate_file; the iteration that breaks
\* leaves the with-block and runs the rest of the function.
ValidateLoop(v) ==
    LET data == Read(v.pos, ADC_RECORD_SIZE)
        w == [v EXCEPT !.pos = @ + Len(data), !.iters = @ + 1,
                       !.held = Max(@, Len(data))]
    IN  IF PrimaryOutcome(data) = "raise"
        THEN [w EXCEPT !.pc = "raised", !.open = FALSE]
        ELSE IF PrimaryOutcome(data) = "end"
        THEN ValidateFinish([w EXCEPT !.open = FALSE])
        ELSE LET adc_rec == ADCRecord_from_bytes(data)
                 x == [CheckGap(w, adc_rec) EXCEPT !.adc_count = @ + 1,
                                                   !.record_index = @ + 1]
             IN  IF x.imu_decimation > 0 /\ x.adc_count % x.imu_decimation = 0
                 THEN LET imu_data == Read(x.pos, IMU_RECORD_SIZE)
                      IN  [x EXCEPT !.pos = @ + Len(imu_data),
                                    !.held = Max(@, Len(imu_data)),
                                    !.imu_count = IF Len(imu_data) >= IMU_RECORD_SIZE
                                                  THEN @ + 1 ELSE @]
                 ELSE x

\* ------------------------------------------------------------------------
\* Initial states and actions
\* ------------------------------------------------------------------------
Unbuilt == [state |-> "unbuilt", header |-> NoHeader, footer |-> NoFooter]

Fresh ==
    [log |-> Unbuilt, adc |-> NewPass, imu |-> NewPass, rec |-> NewRecPass,
     val |-> NewValidation]

NothingBefore == [taken |-> FALSE] @@ Fresh

InitRest ==
    /\ log = Unbuilt
    /\ adc = NewPass
    /\ imu = NewPass
    /\ rec = NewRecPass
    /\ val = NewValidation
    /\ before = NothingBefore

\* The clients: export.to_csv drives an iter_adc and an iter_imu generator
\* side by side, the system tests iterate the combined sequence, and
\* validate_log.py calls validate_file.
Consumers == {"to_csv", "records", "validate_log"}

Runs(c) == consumer \in {c, "all"}

Init ==
    /\ gen \in Gens
    /\ consumer \in Consumers
    /\ exists = (gen.ending # "missing")
    /\ file = FileOf(gen)
    /\ InitRest

\* log = LogFile(path)
NewLogFile ==
    /\ Runs("to_csv") \/ Runs("records")
    /\ log.state = "unbuilt"
    /\ log' = LogFile_init
    /\ UNCHANGED <<gen, consumer, exists, file, adc, imu, rec, val, before>>

\* next() on the iter_adc generator
AdcNext ==
    /\ Runs("to_csv")
    /\ log.state = "ok"
    /\ adc.pc \in {"init", "yielded"}
    /\ adc' = IF adc.pc = "init" THEN AdcStart(adc) ELSE AdcResume(adc)
    /\ UNCHANGED <<gen, consumer, exists, file, log, imu, rec, val, before>>

\* the consumer abandons the iter_adc generator
AdcClose ==
    /\ Runs("to_csv")
    /\ log.state = "ok"
    /\ adc.pc \in {"init", "yielded"}
    /\ adc' = ClosePass(adc)
    /\ UNCHANGED <<gen, consumer, exists, file, log, imu, rec, val, before>>

\* next() on the iter_imu generator
ImuNext ==
    /\ Runs("to_csv")
    /\ log.state = "ok"
    /\ imu.pc \in {"init", "yielded"}
    /\ imu' = IF imu.pc = "init" THEN ImuStart(imu) ELSE ImuResume(imu)
    /\ UNCHANGED <<gen, consumer, exists, file, log, adc, rec, val, before>>

\* the consumer abandons the iter_imu generator
ImuClose ==
    /\ Runs("to_csv")
    /\ log.state = "ok"
    /\ imu.pc \in {"init", "yielded"}
    /\ imu' = ClosePass(imu)
    /\ UNCHANGED <<gen, consumer, exists, file, log, adc, rec, val, before>>

\* next() on the combined record sequence
RecNext ==
    /\ Runs("records")
    /\ log.state = "ok"
    /\ rec.pc \in {"init", "yielded"}
    /\ rec' = IF rec.pc = "init" THEN RecStart(rec) ELSE RecStep(rec)
    /\ UNCHANGED <<gen, consumer, exists, file, log, adc, imu, val, before>>

\* validate_file(path, check_crc, check_gaps) is called
ValidateCall ==
    /\ Runs("validate_log")
    /\ val.pc = "idle"
    /\ \E check_crc \in BOOLEAN, check_gaps \in BOOLEAN :
          /\ before.taken =>
                check_crc = before.val.check_crc /\ check_gaps = before.val.check_gaps
          /\ val' = ValidateStart(check_crc, check_gaps)
    /\ UNCHANGED <<gen, consumer, exists, file, log, adc, imu, rec, before>>

\* validate_file runs one iteration of its record loop
ValidateStep ==
    /\ val.pc = "loop"
    /\ val' = ValidateLoop(val)
    /\ UNCHANGED <<gen, consumer, exists, file, log, adc, imu, rec, before>>

\* The client has finished with the file: every pass it runs has ended.
ClientDone ==
    CASE consumer = "to_csv" -> adc.pc = "done" /\ imu.pc = "done"
      [] consumer = "records" -> rec.pc = "done"
      [] consumer = "validate_log" -> val.pc = "done"
      [] consumer = "all" -> /\ adc.pc = "done" /\ imu.pc = "done"
                             /\ rec.pc = "done" /\ val.pc = "done"

\* The file on disk is damaged after the client has read it; the client
\* keeps what it got and reads the file again, validate_log.py with the
\* same options.  The sign bit of a sequence number flips only when the
\* second validation will not look for gaps.
Damage ==
    /\ exists /\ ClientDone
    /\ ~before.taken
    /\ \E d \in Damages(gen) :
          /\ SequenceSignFlip(gen, d) => ~(consumer = "validate_log" /\ val.check_gaps)
          /\ gen' = [gen EXCEPT !.damage = d]
          /\ file' = Damaged(file, d)
    /\ before' = [taken |-> TRUE, log |-> log, adc |-> adc, imu |-> imu,
                  rec |-> rec, val |-> val]
    /\ log' = Unbuilt /\ adc' = NewPass /\ imu' = NewPass
    /\ rec' = NewRecPass /\ val' = NewValidation
    /\ UNCHANGED <<consumer, exists>>

Next ==
    \/ Damage
    \/ NewLogFile
    \/ AdcNext
    \/ AdcClose
    \/ ImuNext
    \/ ImuClose
    \/ RecNext
    \/ ValidateCall
    \/ ValidateStep

Spec == Init /\ [][Next]_vars

\* The round-trip file of the format's acceptance test: 1000 Hz and 100 Hz,
\* 25 primary records numbered 0..24, a secondary record after the 10th and
\* the 20th, and a footer with the totals and the checksum of all bytes
\* before it.
InitRoundTrip ==
    /\ gen = [adc_rate |-> 1000, imu_rate |-> 100, n |-> 25, ending |-> "footer",
              header |-> "ok", anomaly |-> NoAnomaly, may |-> "magic",
              damage |-> NoDamage]
    /\ consumer \in Consumers
    /\ exists = TRUE
    /\ file = FileOf(gen)
    /\ InitRest

SpecRoundTrip == InitRoundTrip /\ [][Next]_vars

\* Valid files with a footer and a non-zero checksum; after validate_log.py
\* has validated one, any one bit of its data region may flip.
FlipGens ==
    {g \in [adc_rate : {1000}, imu_rate : {0, 1000, 400},
            n : 1..MaxFlipRecords, ending : {"footer", "sentfooter"},
            header : {"ok"}, anomaly : {NoAnomaly},
            may : {"magic", "bitflip"}, damage : {NoDamage}] : TRUE}

InitBitFlip ==
    /\ gen \in FlipGens
    /\ consumer \in Consumers
    /\ gen.may = IF consumer = "validate_log" THEN "bitflip" ELSE "magic"
    /\ exists = TRUE
    /\ file = FileOf(gen)
    /\ InitRest

SpecBitFlip == InitBitFlip /\ [][Next]_vars

\* A client that holds iter_adc, iter_imu and the combined sequence of one
\* LogFile and calls validate_file on the same path, advancing them in any
\* order.
PassGens ==
    {g \in [adc_rate : {1000}, imu_rate : {1000},
            n : 1..MaxPassRecords, ending : {"cut5", "sentfooter"},
            header : {"ok"}, anomaly : {NoAnomaly},
            may : {"none", "magic"}, damage : {NoDamage}] : g.may = MayOf(g)}

InitPasses ==
    /\ gen \in PassGens
    /\ consumer = "all"
    /\ exists = TRUE
    /\ file = FileOf(gen)
    /\ InitRest

SpecPasses == InitPasses /\ [][Next]_vars

\* ------------------------------------------------------------------------
\* The file layout the claims speak of, read off the file bytes and the
\* producer's ratio, without the reader's code.
\* ------------------------------------------------------------------------
N == gen.n
R == WriterRatio(gen)
Size == Len(file)

\* Offset of the k-th primary block (k = 1, 2, ...) when one secondary block
\* follows every R-th primary block.
PrimaryPos(k) ==
    HEADER_SIZE + ADC_RECORD_SIZE * (k - 1)
      + (IF R > 0 THEN IMU_RECORD_SIZE * ((k - 1) \div R) ELSE 0)

\* Whether a secondary block follows the k-th primary block, and its offset.
SecondaryDue(k) == R > 0 /\ k % R = 0
SecondaryPos(k) == PrimaryPos(k) + ADC_RECORD_SIZE

Ks == 1..((Size \div ADC_RECORD_SIZE) + 1)

PrimaryWhole(k) == PrimaryPos(k) + ADC_RECORD_SIZE <= Size
SecondaryWhole(k) == SecondaryPos(k) + IMU_RECORD_SIZE <= Size
PrimaryIsEnd(k) == PrimaryWhole(k) /\ file[PrimaryPos(k) + 1] = END_MARKER

\* The k-th primary block is a record of the stream: it and every block
\* before it is whole, and no primary block up to it starts with 0xFF.
InStream(k) ==
    \A j \in 1..k :
        /\ PrimaryWhole(j) /\ ~PrimaryIsEnd(j)
        /\ (j < k /\ SecondaryDue(j)) => SecondaryWhole(j)

StreamPrimaries == {k \in Ks : InStream(k)}
StreamSecondaries ==
    {k \in Ks : InStream(k) /\ SecondaryDue(k) /\ SecondaryWhole(k)}

\* The first primary position whose block starts with 0xFF (0 if none).
EndBlocks == {k \in Ks : PrimaryIsEnd(k)}
FirstEnd == IF EndBlocks = {} THEN 0
            ELSE CHOOSE k \in EndBlocks : \A j \in EndBlocks : k <= j

\* The file ends with a footer: 32 bytes after the header that start with
\* the footer magic.
EndsWithFooter ==
    /\ exists
    /\ Size >= HEADER_SIZE + FOOTER_SIZE
    /\ U32(file, Size - FOOTER_SIZE) = FOOTER_MAGIC
DataEnd == IF EndsWithFooter THEN Size - FOOTER_SIZE ELSE Size

\* A well-formed file as the producer writes it: all n primary records, a
\* secondary record after every R-th, then the sentinel block, the footer,
\* both, or the end of the file.
WellFormed == gen.ending \in {"eof", "sentinel", "footer", "footer0", "sentfooter"}

AdcOffsets == [i \in 1..Len(adc.out) |-> adc.out[i].off]
ImuOffsets == [i \in 1..Len(imu.out) |-> imu.out[i].off]

\* ------------------------------------------------------------------------
\* C1
\* ------------------------------------------------------------------------
\* C1 (as claimed): for every well-formed file with N primary records and
\* ratio R >= 1, a full iter_adc pass yields exactly N primary records and a
\* full iter_imu pass yields exactly N \div R secondary records.
C1_FullPassCounts ==
    (WellFormed /\ R >= 1) =>
        /\ adc.pc = "done" => Len(adc.out) = N
        /\ imu.pc = "done" => Len(imu.out) = N \div R

\* ------------------------------------------------------------------------
\* C2
\* ------------------------------------------------------------------------
\* C2: a pass stops at the first primary-position block whose first byte is
\* 0xFF.  When the pass has ended and such a block exists at position k, the
\* records produced are exactly the primary records 1..k-1 (iter_adc, and
\* the count of validate_file) and the secondary records that follow them
\* (iter_imu): nothing at or after the block, everything before it, whatever
\* the first bytes of the secondary blocks are.
C2_StopsAtFirstEndBlock ==
    FirstEnd # 0 =>
        /\ adc.pc \in {"done", "raised"} =>
              AdcOffsets = [i \in 1..(FirstEnd - 1) |-> PrimaryPos(i)]
        /\ imu.pc \in {"done", "raised"} /\ R > 0 =>
              ImuOffsets = [i \in 1..((FirstEnd - 1) \div R) |-> SecondaryPos(i * R)]
        /\ val.pc \in {"done", "raised"} /\ Size >= HEADER_SIZE =>
              /\ val.report.adc_count = FirstEnd - 1
              /\ val.pos = PrimaryPos(FirstEnd) + ADC_RECORD_SIZE

\* C2 witness: an iter_adc pass has ended at an end block at position 3 or
\* later although an earlier secondary block starts with 0xFF.
C2_Witness ==
    /\ adc.pc = "done"
    /\ FirstEnd >= 3
    /\ Len(adc.out) = FirstEnd - 1
    /\ \E k \in 1..(FirstEnd - 1) :
          SecondaryDue(k) /\ file[SecondaryPos(k) + 1] = END_MARKER

\* ------------------------------------------------------------------------
\* C3
\* ------------------------------------------------------------------------
\* C3 (as claimed): for a file that ends with a footer, every record that
\* iter_adc or iter_imu yields, and every record validate_file counts, lies
\* wholly between the header and the final 32 bytes.
C3_NoRecordFromFooter ==
    EndsWithFooter =>
        /\ \A i \in 1..Len(adc.out) :
              adc.out[i].off + ADC_RECORD_SIZE <= DataEnd
        /\ \A i \in 1..Len(imu.out) :
              imu.out[i].off + IMU_RECORD_SIZE <= DataEnd
        /\ val.report.adc_count > 0 =>
              PrimaryPos(val.report.adc_count) + ADC_RECORD_SIZE <= DataEnd

\* ------------------------------------------------------------------------
\* C4
\* ------------------------------------------------------------------------
\* C4: a short read ends the pass without raising.  No pass ever raises; and
\* when a pass over a file without an end block has ended (so it ended on a
\* short read), it has yielded exactly the records that are whole in the
\* file up to the first block that is not: every yielded record is whole,
\* and no primary record follows a short secondary block.
C4_ShortReadEndsPass ==
    /\ adc.pc # "raised" /\ imu.pc # "raised"
    /\ rec.pc # "raised" /\ val.pc # "raised"
    /\ FirstEnd = 0 /\ exists =>
          /\ adc.pc = "done" =>
                AdcOffsets = [i \in 1..Cardinality(StreamPrimaries) |-> PrimaryPos(i)]
          /\ imu.pc = "done" /\ R > 0 =>
                ImuOffsets = [i \in 1..Cardinality(StreamSecondaries)
                                |-> SecondaryPos(i * R)]
          /\ val.pc = "done" /\ Size >= HEADER_SIZE =>
                /\ val.report.adc_count = Cardinality(StreamPrimaries)
                /\ R > 0 => val.report.imu_count = Cardinality(StreamSecondaries)

\* C4 witness: an iter_adc pass has ended on a short secondary block after
\* yielding the primary record before it, with a whole primary block's worth
\* of bytes or less left.
C4_Witness ==
    /\ adc.pc = "done"
    /\ FirstEnd = 0
    /\ Len(adc.out) >= 1
    /\ SecondaryDue(Len(adc.out))
    /\ SecondaryPos(Len(adc.out)) < Size
    /\ ~SecondaryWhole(Len(adc.out))

\* ------------------------------------------------------------------------
\* C5
\* ------------------------------------------------------------------------
RecOffsets == [i \in 1..Len(rec.out) |-> rec.out[i].off]
RecKinds == [i \in 1..Len(rec.out) |-> rec.out[i].kind]
RecSize(kind) == IF kind = "adc" THEN ADC_RECORD_SIZE ELSE IMU_RECORD_SIZE
PrimariesBefore(i) == Cardinality({j \in 1..(i - 1) : rec.out[j].kind = "adc"})

C6_RoundTripValidates ==
    (val.pc = "done" /\ gen.damage = NoDamage) =>
        /\ val.report.is_valid
        /\ val.report.gaps = <<>>
        /\ val.report.crc_valid

\* ------------------------------------------------------------------------
\* C7
\* ------------------------------------------------------------------------
RECURSIVE SumMissing(_)
SumMissing(gaps) ==
    IF gaps = <<>> THEN 0
    ELSE gaps[Len(gaps)].missing_count + SumMissing(SubSeq(gaps, 1, Len(gaps) - 1))

\* The sequence number stored in the primary block the validator is about
\* to read.
ObservedSeq == Signed32(file, val.pos + 8)

\* C7: with check_gaps set the expected-sequence counter starts at 0;
\* every primary record the loop takes sets the counter to the observed
\* number + 1, and appends a Gap (position = index of the record,
\* expected_seq = the counter, actual_seq = the observed number,
\* missing_count = observed - expected) exactly when the observed number
\* differs from the counter; total_missing is always the sum of
\* missing_count over the recorded gaps.
C7_GapWalk ==
    /\ [](/\ val.report.total_missing = SumMissing(val.report.gaps)
          /\ val.record_index = 0 => val.expected_seq = 0 /\ val.report.gaps = <<>>)
    /\ [][(val.check_gaps /\ val'.record_index = val.record_index + 1) =>
            /\ val'.expected_seq = ObservedSeq + 1
            /\ IF ObservedSeq # val.expected_seq
               THEN /\ Len(val'.report.gaps) = Len(val.report.gaps) + 1
                    /\ SubSeq(val'.report.gaps, 1, Len(val.report.gaps))
                          = val.report.gaps
                    /\ LET g == val'.report.gaps[Len(val'.report.gaps)]
                       IN  /\ g.position = val.record_index
                           /\ g.expected_seq = val.expected_seq
                           /\ g.actual_seq = ObservedSeq
                           /\ g.missing_count = ObservedSeq - val.expected_seq
               ELSE val'.report.gaps = val.report.gaps]_vars

\* C7 witness: a finished validation has recorded a forward gap at a record
\* other than the first and has taken records that match the counter both
\* before and after it.
C7_Witness ==
    /\ val.pc = "done" /\ val.check_gaps
    /\ Len(val.report.gaps) = 1
    /\ val.report.gaps[1].position >= 1
    /\ val.report.gaps[1].missing_count = JumpSize
    /\ val.report.adc_count >= val.report.gaps[1].position + 2
    /\ val.report.total_missing = JumpSize

\* ------------------------------------------------------------------------
\* C8
\* ------------------------------------------------------------------------
\* A file whose sequence numbers run 0, 1, ... with one forward jump at a
\* record after the first, all of whose records are whole, and whose
\* checksum, if any, is right.
OneForwardJump ==
    /\ gen.anomaly.kind = "jump" /\ gen.anomaly.at >= 2
    /\ gen.ending \in {"eof", "sentinel", "footer", "footer0", "sentfooter"}

\* C8 (as claimed): such a file yields exactly one Gap, whose missing_count
\* is the number of skipped sequence numbers, exactly one gap-summary
\* warning, and is still valid.
C8_OneJumpOneGap ==
    (OneForwardJump /\ val.pc = "done" /\ val.check_gaps) =>
        /\ Len(val.report.gaps) = 1
        /\ val.report.gaps[1].missing_count = JumpSize
        /\ Cardinality({i \in 1..Len(val.report.warnings) :
                          val.report.warnings[i] = "Found sequence gaps"}) = 1
        /\ val.report.is_valid

\* ------------------------------------------------------------------------
\* C9
\* ------------------------------------------------------------------------
ErrorFindings ==
    {"File not found", "File too small", "Failed to parse file",
     "Invalid header magic", "Invalid footer magic",
     "CRC32 mismatch - file may be corrupted"}
WarningFindings ==
    {"Footer missing - file may have ended uncleanly", "ADC count mismatch",
     "IMU count mismatch", "Found sequence gaps"}

\* C9: in every report is_valid is true iff the errors list is empty; the
\* error list holds only error-class findings and the warning list only
\* warnings, so no warning changes is_valid.
C9_ValidIffNoErrors ==
    /\ val.report.is_valid <=> val.report.errors = <<>>
    /\ \A i \in 1..Len(val.report.errors) : val.report.errors[i] \in ErrorFindings
    /\ \A i \in 1..Len(val.report.warnings) :
          val.report.warnings[i] \in WarningFindings

\* C9 witness: a returned report that holds two errors and at least one
\* warning, and is invalid.
C9_Witness ==
    /\ val.pc = "done"
    /\ ~val.report.is_valid
    /\ val.report.warnings # <<>>
    /\ Len(val.report.errors) >= 2

\* ------------------------------------------------------------------------
\* C10
\* ------------------------------------------------------------------------
\* A file with a valid header, at least one whole primary record, no gap in
\* the sequence numbers and no footer: it ends at the end of the data, in the
\* middle of a record, or with the sentinel block.
HeaderRecordsNoFooter ==
    /\ gen.header \in {"ok", "tailmagic"} /\ gen.damage = NoDamage
    /\ gen.ending \in {"eof", "cut5", "cut16", "sentinel"}
    /\ gen.anomaly.kind \in {"none", "ff", "ffimu"}
    /\ InStream(1)

\* C10: such a file validates with footer_present = false, the "unclean"
\* warning as its only warning, no error and is_valid = true; no checksum is
\* computed or compared and no totals are taken from a footer.
C10_NoFooterIsWarning ==
    (HeaderRecordsNoFooter /\ val.pc = "done") =>
        /\ ~val.report.footer_present
        /\ val.report.warnings = <<"Footer missing - file may have ended uncleanly">>
        /\ val.report.errors = <<>>
        /\ val.report.is_valid
        /\ val.report.crc_valid
        /\ val.report.crc_computed = <<0, 0>> /\ val.report.crc_expected = <<0, 0>>
        /\ val.report.expected_adc_count = W64(0)
        /\ val.report.expected_imu_count = W64(0)

\* C10 witness: a file cut in the middle of a record after at least one
\* whole record has been validated with the checksum check requested.
C10_Witness ==
    /\ HeaderRecordsNoFooter /\ gen.ending = "cut5"
    /\ val.pc = "done" /\ val.check_crc
    /\ val.report.adc_count >= 1
    /\ ~val.report.footer_present

\* ------------------------------------------------------------------------
\* C11
\* ------------------------------------------------------------------------
\* C11 (as claimed): a file whose last 32 bytes are a footer with a
\* mismatched magic is reported with an error of its own (footer_valid and
\* is_valid false), and not with the "footer missing" warning.
C11_BadFooterMagicIsError ==
    (gen.ending = "footermagic" /\ val.pc = "done") =>
        /\ ~val.report.footer_valid
        /\ ~val.report.is_valid
        /\ \E i \in 1..Len(val.report.errors) :
              val.report.errors[i] = "Invalid footer magic"
        /\ \A i \in 1..Len(val.report.warnings) :
              val.report.warnings[i] # "Footer missing - file may have ended uncleanly"

\* ------------------------------------------------------------------------
\* C12
\* ------------------------------------------------------------------------
HasError(msg) == \E i \in 1..Len(val.report.errors) : val.report.errors[i] = msg
HasWarning(msg) == \E i \in 1..Len(val.report.warnings) : val.report.warnings[i] = msg

\* The checksum field of the footer the file ends with.
FooterChecksum == U32(file, Size - 4)

\* The checksum check is due: check_crc is set and the file ends with a
\* footer whose checksum field is not 0.
ChecksumDue == val.check_crc /\ EndsWithFooter /\ FooterChecksum # <<0, 0>>

\* C12: once validate_file is past its checksum step, the check has been
\* performed iff it is due.  If so the computed value is the checksum of
\* the bytes 0 .. size-33, the expected value is the footer's field,
\* crc_valid is false iff they differ and the checksum error is recorded iff
\* they differ; if not, crc_valid is true, nothing was computed and no
\* checksum error is recorded.
C12_ChecksumCheck ==
    val.pc \in {"loop", "done"} =>
        IF ChecksumDue
        THEN /\ val.report.crc_computed
                  = crc32_ieee(SubSeq(file, 1, Size - FOOTER_SIZE), <<0, 0>>)
             /\ val.report.crc_expected = FooterChecksum
             /\ val.report.crc_valid
                  <=> val.report.crc_computed = val.report.crc_expected
             /\ HasError("CRC32 mismatch - file may be corrupted")
                  <=> val.report.crc_computed # val.report.crc_expected
        ELSE /\ val.report.crc_valid
             /\ val.report.crc_computed = <<0, 0>>
             /\ val.report.crc_expected = <<0, 0>>
             /\ ~HasError("CRC32 mismatch - file may be corrupted")

\* C12 witness: a finished validation of a file with records whose footer
\* holds a wrong, non-zero checksum has found the mismatch.
C12_Witness ==
    /\ val.pc = "done" /\ ChecksumDue
    /\ val.report.adc_count >= 1
    /\ ~val.report.crc_valid
    /\ val.report.crc_computed # <<0, 0>>

\* ------------------------------------------------------------------------
\* C13
\* ------------------------------------------------------------------------
\* One bit of the data region has flipped since the file validated as valid
\* with its checksum checked, and the file has been validated again.
FlippedAndValidated ==
    /\ gen.damage.kind = "flip"
    /\ before.taken /\ before.val.report.is_valid /\ before.val.report.crc_valid
    /\ val.pc = "done"

\* C13: for a file that validates as valid with a non-zero footer checksum,
\* a flip of any single bit between header and footer makes validate_file
\* (with check_crc set) report crc_valid = false and is_valid = false.
C13_FlipBreaksChecksum ==
    (FlippedAndValidated /\ val.check_crc) =>
        /\ ~val.report.crc_valid
        /\ ~val.report.is_valid
        /\ val.report.crc_expected = before.val.report.crc_expected
        /\ val.report.crc_computed # before.val.report.crc_computed

\* C13 witness: the top bit of the last byte before the footer has flipped
\* and the second validation has reported the mismatch.
C13_Witness ==
    /\ FlippedAndValidated /\ val.check_crc
    /\ gen.damage.at = Size - FOOTER_SIZE - 1 /\ gen.damage.bit = 7
    /\ ~val.report.crc_valid

\* ------------------------------------------------------------------------
\* C14
\* ------------------------------------------------------------------------
\* The flipped byte is byte lo..hi of some primary block.
FlipInPrimary(lo, hi) ==
    \E k \in Ks :
        /\ PrimaryPos(k) + ADC_RECORD_SIZE <= DataEnd
        /\ gen.damage.at \in (PrimaryPos(k) + lo)..(PrimaryPos(k) + hi)

RECURSIVE RefCrcBits(_, _, _, _)
RefCrcBits(c, data, lo, hi) ==
    IF lo > hi THEN c
    ELSE IF lo = hi
         THEN CHOOSE r \in {CrcShift(Xor32(x, <<0, data[lo]>>), 8) : x \in {c}} : TRUE
    ELSE LET mid == (lo + hi) \div 2
         IN  CHOOSE r \in {RefCrcBits(x, data, mid + 1, hi) :
                             x \in {RefCrcBits(c, data, lo, mid)}} : TRUE

RefCrc(data, init, xorout) == Xor32(RefCrcBits(init, data, 1, Len(data)), xorout)

ChecksumRegion == SubSeq(file, 1, Size - FOOTER_SIZE)

AllZero(data) == \A i \in 1..Len(data) : data[i] = 0

\* C15 (as claimed): the checksum validate_file computes is the reflected
\* CRC-32 with initial register value 0 and final XOR 0; the checksum of a
\* region of zero bytes is 0.
C15_CrcInitZero ==
    (val.pc = "done" /\ ChecksumDue) =>
        /\ val.report.crc_computed = RefCrc(ChecksumRegion, <<0, 0>>, <<0, 0>>)
        /\ AllZero(ChecksumRegion) => val.report.crc_computed = <<0, 0>>

\* C15 (amended): the checksum validate_file computes is the reflected
\* CRC-32 with initial register value 0xFFFFFFFF and final XOR 0xFFFFFFFF;
\* the checksum of a region of 64 zero bytes is 0x758D6336, not 0.
C15_CrcStandard ==
    (val.pc = "done" /\ ChecksumDue) =>
        /\ val.report.crc_computed = RefCrc(ChecksumRegion, ALL_ONES, ALL_ONES)
        /\ (AllZero(ChecksumRegion) /\ Len(ChecksumRegion) = HEADER_SIZE) =>
              val.report.crc_computed = <<30093, 25398>>

\* C15 witness: validate_file has computed the checksum of a file that is a
\* header of zero bytes and a footer, and it is not 0.
C15_Witness ==
    /\ val.pc = "done" /\ ChecksumDue
    /\ AllZero(ChecksumRegion)
    /\ val.report.crc_computed # <<0, 0>>

\* ------------------------------------------------------------------------
\* C16
\* ------------------------------------------------------------------------
\* How many times msg is among the warnings of the report.
WarningCount(msg) ==
    Cardinality({i \in 1..Len(val.report.warnings) : val.report.warnings[i] = msg})

\* The totals the footer at the end of the file declares.
FooterTotalAdc == U64(file, Size - FOOTER_SIZE + 4)
FooterTotalImu == U64(file, Size - FOOTER_SIZE + 12)

\* validate_file went as far as counting records.
Counted == val.pc = "done" /\ ~HasError("File too small") /\ ~HasError("File not found")

\* C16: when validate_file returns after counting, there is a primary
\* (secondary) count-mismatch warning, exactly one, iff the file ends with
\* a footer and the counted primary (secondary) records differ from the
\* total it declares; a count mismatch is never among the errors; without a
\* footer the expected counts of the report are 0.
C16_CountsAgainstFooter ==
    Counted =>
        /\ WarningCount("ADC count mismatch")
             = IF EndsWithFooter /\ W64(val.report.adc_count) # FooterTotalAdc THEN 1 ELSE 0
        /\ WarningCount("IMU count mismatch")
             = IF EndsWithFooter /\ W64(val.report.imu_count) # FooterTotalImu THEN 1 ELSE 0
        /\ ~HasError("ADC count mismatch") /\ ~HasError("IMU count mismatch")
        /\ EndsWithFooter =>
              /\ val.report.footer_present /\ val.report.footer_valid
              /\ val.report.expected_adc_count = FooterTotalAdc
              /\ val.report.expected_imu_count = FooterTotalImu
        /\ ~EndsWithFooter =>
              /\ ~val.report.footer_present
              /\ val.report.expected_adc_count = W64(0)
              /\ val.report.expected_imu_count = W64(0)

\* A file without a footer in which records of both kinds were counted, and
\* no count warning was given.
C16_WitnessNoFooter ==
    /\ Counted /\ ~EndsWithFooter
    /\ val.report.adc_count >= 2 /\ val.report.imu_count >= 1
    /\ WarningCount("ADC count mismatch") = 0
    /\ WarningCount("IMU count mismatch") = 0

\* C16 witness: a file with a footer whose declared primary total differs
\* from the count: one warning, and the report is still valid.
C16_Witness ==
    /\ Counted /\ EndsWithFooter
    /\ WarningCount("ADC count mismatch") = 1
    /\ val.report.is_valid

\* ------------------------------------------------------------------------
\* C17
\* ------------------------------------------------------------------------
\* The validity predicate on the first bytes of the file.
HeaderPredicate ==
    /\ U32(file, 0) = FILE_MAGIC
    /\ Unsigned(file, 4, 2) = 1
    /\ Unsigned(file, 6, 2) = 64

WholeHeader == exists /\ Size >= HEADER_SIZE

\* C17: opening a file of at least 64 bytes never fails, whatever the header
\* holds, and the decoded header is valid iff magic = 0x474C434C, version = 1
\* and header size = 64; validate_file on such a file reports
\* header_valid = false iff the predicate is false, and then (and only then)
\* an invalid-header error, with is_valid = false.
C17_HeaderPredicate ==
    /\ (WholeHeader /\ log.state # "unbuilt") =>
          /\ log.state = "ok"
          /\ log.header.magic = U32(file, 0)
          /\ log.header.version = Unsigned(file, 4, 2)
          /\ log.header.header_size = Unsigned(file, 6, 2)
          /\ FileHeader_is_valid(log.header) <=> HeaderPredicate
    /\ (WholeHeader /\ val.pc = "done") =>
          /\ ~HasError("Failed to parse file")
          /\ val.report.header_valid <=> HeaderPredicate
          /\ HasError("Invalid header magic") <=> ~HeaderPredicate
          /\ ~HeaderPredicate => ~val.report.is_valid

\* C17 witness: validate_file has returned for a file whose header has the
\* right magic and size and version 2, with header_valid = false and the error.
C17_Witness ==
    /\ WholeHeader /\ val.pc = "done"
    /\ U32(file, 0) = FILE_MAGIC /\ Unsigned(file, 4, 2) = 2
    /\ ~val.report.header_valid
    /\ HasError("Invalid header magic")

\* A file with a header of zero bytes has been opened.
C17_WitnessOpened ==
    /\ WholeHeader /\ log.state = "ok"
    /\ AllZero(SubSeq(file, 1, HEADER_SIZE))
    /\ ~FileHeader_is_valid(log.header)

\* ------------------------------------------------------------------------
\* C18
\* ------------------------------------------------------------------------
\* The magic of a well-formed file was overwritten after the client read it,
\* and the client has read the file again.
MagicOverwritten ==
    /\ gen.damage.kind \in {"magic", "magicfix"}
    /\ before.taken /\ ClientDone

\* What the two rounds have in common whatever the checksum says.
SameRecordsAndGaps ==
    /\ adc.out = before.adc.out
    /\ imu.out = before.imu.out
    /\ val.report.adc_count = before.val.report.adc_count
    /\ val.report.imu_count = before.val.report.imu_count
    /\ val.report.gaps = before.val.report.gaps
    /\ val.report.total_missing = before.val.report.total_missing
    /\ val.report.footer_present = before.val.report.footer_present
    /\ val.report.footer_valid = before.val.report.footer_valid
    /\ val.report.warnings = before.val.report.warnings

HeaderFindings ==
    consumer = "validate_log" =>
        /\ before.val.report.header_valid /\ ~val.report.header_valid
        /\ ~val.report.is_valid

\* C18 (as claimed): with the magic wrong, iter_adc, iter_imu and
\* validate_file give the same records, counts, gaps and checksum result as
\* with the right magic; header_valid, is_valid and the errors differ, and
\* the errors only by the invalid-header error.
C18_WrongMagicSameResults ==
    MagicOverwritten =>
        /\ SameRecordsAndGaps
        /\ HeaderFindings
        /\ val.report.crc_valid = before.val.report.crc_valid
        /\ consumer = "validate_log" =>
              val.report.errors = <<"Invalid header magic">> \o before.val.report.errors

\* C18 (amended): with the magic wrong, the records, counts, gaps and
\* warnings are the same and header_valid and is_valid are false.  The
\* checksum result is the same when no checksum is checked or when the
\* footer's checksum was written for the bytes with the wrong magic; when
\* only the magic differs and the checksum is checked, the checksum that
\* matched no longer does, and the checksum error is reported as well.
C18_WrongMagicChecksumCoversHeader ==
    MagicOverwritten =>
        /\ SameRecordsAndGaps
        /\ HeaderFindings
        /\ IF gen.damage.kind = "magic" /\ ChecksumDue /\ consumer = "validate_log"
           THEN /\ before.val.report.crc_valid /\ ~val.report.crc_valid
                /\ val.report.errors = <<"Invalid header magic",
                                         "CRC32 mismatch - file may be corrupted">>
                                         \o before.val.report.errors
           ELSE /\ val.report.crc_valid = before.val.report.crc_valid
                /\ consumer = "validate_log" =>
                      val.report.errors
                        = <<"Invalid header magic">> \o before.val.report.errors

\* C18 witness: the magic was overwritten and the checksum rewritten; both
\* passes gave the records of both kinds they gave before.
C18_Witness ==
    /\ MagicOverwritten /\ gen.damage.kind = "magicfix"
    /\ consumer = "to_csv"
    /\ Len(adc.out) >= 2 /\ Len(imu.out) >= 1
    /\ adc.out = before.adc.out /\ imu.out = before.imu.out

\* The magic alone was overwritten, and validate_file reports the records
\* and gaps it reported before and a checksum mismatch.
C18_WitnessValidated ==
    /\ MagicOverwritten /\ gen.damage.kind = "magic"
    /\ consumer = "validate_log" /\ ChecksumDue
    /\ val.report.adc_count >= 2
    /\ ~val.report.crc_valid

\* ------------------------------------------------------------------------
\* C19
\* ------------------------------------------------------------------------
\* The file holds fewer bytes than a header.
ShortFile == exists /\ Size < HEADER_SIZE

\* C19: for a file of fewer than 64 bytes, LogFile construction raises and
\* no pass is ever started on it; validate_file returns at once with
\* is_valid = false, the one error "File too small", no warning, no record
\* counted and no gap, without having opened the file.
C19_ShortHeader ==
    ShortFile =>
        /\ log.state \in {"unbuilt", "raised"}
        /\ adc = NewPass /\ imu = NewPass /\ rec = NewRecPass
        /\ val.pc \in {"idle", "done"}
        /\ val.pc = "done" =>
              /\ ~val.report.is_valid
              /\ val.report.errors = <<"File too small">>
              /\ val.report.warnings = <<>>
              /\ val.report.adc_count = 0 /\ val.report.imu_count = 0
              /\ val.report.gaps = <<>> /\ val.report.total_missing = 0
              /\ ~val.open /\ val.held = 0

\* C19 witness: validate_file has returned for a file of 1..63 bytes.
C19_Witness ==
    /\ ShortFile /\ Size >= 1
    /\ val.pc = "done"
    /\ val.report.errors = <<"File too small">>

\* LogFile construction has raised for a file of 1..63 bytes.
C19_WitnessRaised == ShortFile /\ Size >= 1 /\ log.state = "raised"

\* ------------------------------------------------------------------------
\* C20
\* ------------------------------------------------------------------------
\* floor(primary rate / secondary rate) of the rates in the header on disk,
\* 0 when the secondary rate is 0.
HeaderRatio ==
    LET primary == Unsigned(file, 8, 4)
        secondary == Unsigned(file, 12, 4)
    IN  IF secondary = 0 THEN 0
        ELSE CHOOSE q \in 0..primary :
                 q * secondary <= primary /\ primary < (q + 1) * secondary

\* The pass ran its first next() (it was not abandoned before).
Started(p) == p.pc \in {"yielded", "done"} \/ p.iters > 0

\* C20: every pass that has started uses HeaderRatio.  When it is 0, the
\* i-th record iter_adc yields is the i-th 12-byte block after the header
\* and no read is longer than 12 bytes; iter_imu yields nothing and reads
\* nothing; validate_file counts no secondary record and its cursor is 12
\* bytes further for each record counted (and at most one more block, the
\* one that ended the pass).
C20_RatioZeroDisablesInterleave ==
    WholeHeader =>
        /\ Started(adc) => adc.imu_decimation = HeaderRatio
        /\ Started(imu) => imu.imu_decimation = HeaderRatio
        /\ val.pc \in {"loop", "done"} => val.imu_decimation = HeaderRatio
        /\ HeaderRatio = 0 =>
              /\ \A i \in 1..Len(adc.out) :
                    adc.out[i].off = HEADER_SIZE + (i - 1) * ADC_RECORD_SIZE
              /\ adc.held <= ADC_RECORD_SIZE
              /\ adc.pc = "yielded" =>
                    adc.pos = HEADER_SIZE + Len(adc.out) * ADC_RECORD_SIZE
              /\ imu.out = <<>> /\ imu.iters = 0 /\ imu.held = 0
              /\ imu.pc \in {"init", "closed", "done"}
              /\ val.imu_count = 0 /\ val.report.imu_count = 0
              /\ val.pc \in {"loop", "done"} =>
                    /\ val.pos >= HEADER_SIZE + val.adc_count * ADC_RECORD_SIZE
                    /\ val.pos <= HEADER_SIZE + (val.adc_count + 1) * ADC_RECORD_SIZE
                    /\ val.pc = "loop" =>
                          val.pos = HEADER_SIZE + val.adc_count * ADC_RECORD_SIZE

\* C20 witness: the header gives 100 Hz and 1000 Hz, ratio 0; iter_adc has
\* yielded two records from consecutive 12-byte blocks and iter_imu has
\* ended without a record.
C20_Witness ==
    /\ WholeHeader /\ HeaderRatio = 0 /\ Unsigned(file, 12, 4) > 0
    /\ adc.pc = "done" /\ Len(adc.out) >= 2
    /\ adc.out[2].off = HEADER_SIZE + ADC_RECORD_SIZE
    /\ imu.pc = "done" /\ imu.out = <<>>

\* validate_file has counted two records of a file whose secondary rate is 0.
C20_WitnessValidated ==
    /\ WholeHeader /\ Unsigned(file, 12, 4) = 0
    /\ val.pc = "done" /\ val.report.adc_count >= 2 /\ val.report.imu_count = 0

\* ------------------------------------------------------------------------
\* C21
\* ------------------------------------------------------------------------
\* A pass of iter_adc (iter_imu) driven from its first next() to its end on
\* the file as it is now.
RECURSIVE AdcRun(_)
AdcRun(a) == IF a.pc = "yielded" THEN AdcRun(AdcResume(a)) ELSE a

RECURSIVE ImuRun(_)
ImuRun(m) == IF m.pc = "yielded" THEN ImuRun(ImuResume(m)) ELSE m

FullAdcPass ==
    AdcRun(AdcLoop([NewPass EXCEPT !.open = TRUE,
                                   !.imu_decimation = ImuDecimation(LogFile_init.header)],
                   HEADER_SIZE, 0))

FullImuPass ==
    LET d == ImuDecimation(LogFile_init.header)
    IN  IF d = 0 THEN [NewPass EXCEPT !.pc = "done", !.pos = HEADER_SIZE]
        ELSE ImuRun(ImuLoop([NewPass EXCEPT !.open = TRUE, !.imu_decimation = d],
                            HEADER_SIZE, 0, 0))

\* C21: on a file of at least 64 bytes, a pass of iter_adc (iter_imu) that
\* has ended by itself has yielded the records of the full pass; the k-th
\* record validate_file takes is read at the offset of, and decodes to, the
\* k-th record of the full iter_adc pass; and the adc_count and imu_count
\* validate_file reports are the numbers of records the full passes yield.
C21_ValidatorCountsWhatPassesYield ==
    /\ [](WholeHeader =>
            /\ adc.pc = "done" => adc.out = FullAdcPass.out
            /\ imu.pc = "done" => imu.out = FullImuPass.out
            /\ val.pc = "done" =>
                  /\ val.report.adc_count = Len(FullAdcPass.out)
                  /\ val.report.imu_count = Len(FullImuPass.out))
    /\ [][val'.record_index = val.record_index + 1 =>
            LET k == val'.record_index
                full == FullAdcPass.out
            IN  /\ k <= Len(full)
                /\ full[k].off = val.pos
                /\ full[k].rec.sequence_num = ObservedSeq]_vars

\* C21 witness: validate_file has returned for a file with interleaved
\* records of which the full passes yield three and one.
C21_Witness ==
    /\ WholeHeader /\ val.pc = "done"
    /\ val.report.adc_count = 3 /\ Len(FullAdcPass.out) = 3
    /\ val.report.imu_count = 1 /\ Len(FullImuPass.out) = 1

\* ------------------------------------------------------------------------
\* C22
\* ------------------------------------------------------------------------
\* The states a pass goes through when nothing else runs: after each next()
\* up to the end of the pass.
RECURSIVE AdcTrace(_)
AdcTrace(a) == IF a.pc = "yielded" THEN {a} \cup AdcTrace(AdcResume(a)) ELSE {a}

RECURSIVE ImuTrace(_)
ImuTrace(m) == IF m.pc = "yielded" THEN {m} \cup ImuTrace(ImuResume(m)) ELSE {m}

RECURSIVE ValTrace(_)
ValTrace(v) == IF v.pc = "loop" THEN {v} \cup ValTrace(ValidateLoop(v)) ELSE {v}

\* The same with the states in which the consumer has abandoned the pass.
WithAbandoned(states) ==
    states \cup {ClosePass(x) : x \in {y \in states : y.pc \in {"init", "yielded"}}}

AdcAlone == WithAbandoned({NewPass} \cup AdcTrace(AdcStart(NewPass)))
ImuAlone == WithAbandoned({NewPass} \cup ImuTrace(ImuStart(NewPass)))

\* Where a validation stands: its cursor, its running counts and what it has
\* found in the records so far (the checksum is computed before the loop).
Standing(v) ==
    [pc |-> v.pc, open |-> v.open, pos |-> v.pos, iters |-> v.iters,
     adc_count |-> v.adc_count, imu_count |-> v.imu_count,
     record_index |-> v.record_index, expected_seq |-> v.expected_seq,
     gaps |-> v.report.gaps, total_missing |-> v.report.total_missing,
     warnings |-> v.report.warnings,
     counts |-> <<v.report.adc_count, v.report.imu_count>>]

ValAlone ==
    {Standing(x) : x \in {NewValidation}
                            \cup ValTrace(ValidateStart(FALSE, val.check_gaps))}

\* C22: with iter_adc, iter_imu and validate_file running side by side on
\* one file, each pass is always in a state it goes through when it runs
\* alone (same records yielded or gaps found so far, same read position,
\* same running counts), and a step or the abandoning of one pass changes
\* no other pass.
C22_PassesIndependent ==
    /\ [](log.state = "ok" =>
            /\ adc \in AdcAlone
            /\ imu \in ImuAlone
            /\ Standing(val) \in ValAlone)
    /\ [][gen' = gen =>
            /\ adc' # adc => imu' = imu /\ val' = val
            /\ imu' # imu => adc' = adc /\ val' = val
            /\ val' # val => adc' = adc /\ imu' = imu]_vars

\* C22 witness: all three passes are under way at once, iter_adc behind
\* validate_file and iter_imu ahead of iter_adc.
C22_Witness ==
    /\ consumer = "all"
    /\ adc.pc = "yielded" /\ imu.pc = "yielded" /\ val.pc = "loop"
    /\ adc.pos < val.pos /\ adc.pos < imu.pos

\* All three passes have ended after having been advanced in turn.
C22_WitnessDone ==
    /\ consumer = "all"
    /\ adc.pc = "done" /\ imu.pc = "done" /\ val.pc = "done"
    /\ Len(adc.out) >= 2 /\ Len(imu.out) >= 1 /\ val.report.adc_count >= 2

\* ------------------------------------------------------------------------
\* C23
\* ------------------------------------------------------------------------
\* C23: the cursor of a pass of iter_adc or iter_imu is open exactly while
\* the pass is suspended at a yield, and the cursor of validate_file exactly
\* while its loop runs: a pass that has ended (end of file, end block, short
\* read, exception) or was abandoned by the consumer, at once or after a
\* prefix, has no open cursor.
C23_CursorClosedAtPassEnd ==
    /\ adc.open <=> adc.pc = "yielded"
    /\ imu.open <=> imu.pc = "yielded"
    /\ val.open <=> val.pc = "loop"

\* C23 witness: the consumer has abandoned iter_adc after one of the two
\* records of the file, and the cursor is closed.
C23_Witness ==
    /\ adc.pc = "closed" /\ Len(adc.out) = 1 /\ Len(FullAdcPass.out) >= 2
    /\ ~adc.open

\* ------------------------------------------------------------------------
\* C24
\* ------------------------------------------------------------------------
\* C24: no pass ever holds more bytes from one read than the largest
\* fixed-size block of the format, the 64-byte header, whatever the size of
\* the file.
C24_OneBlockBuffered ==
    /\ adc.held <= HEADER_SIZE
    /\ imu.held <= HEADER_SIZE
    /\ val.held <= HEADER_SIZE

\* The passes of iter_adc and iter_imu never hold more than one record.
C24_IteratorsOneRecord ==
    /\ adc.held <= IMU_RECORD_SIZE
    /\ imu.held <= IMU_RECORD_SIZE

\* ------------------------------------------------------------------------
\* C25
\* ------------------------------------------------------------------------
\* validate_file(path, check_crc, check_gaps) run from call to return on the
\* file as it is now.
RECURSIVE ValRun(_)
ValRun(v) == IF v.pc = "loop" THEN ValRun(ValidateLoop(v)) ELSE v

ValFull(check_crc, check_gaps) == ValRun(ValidateStart(check_crc, check_gaps))

\* C25: when validate_file returns, its report is that of the run from
\* call to return; the run with the other value of check_crc reports the
\* same gaps, total_missing, adc_count and imu_count; the run with the other
\* value of check_gaps reports the same crc_valid, crc_expected and
\* crc_computed; and without check_gaps there is no gap and total_missing
\* is 0, while the counts are those of the run with check_gaps.
C25_ChecksIndependent ==
    val.pc = "done" =>
        LET r == val.report
            c == ValFull(~val.check_crc, val.check_gaps).report
            g == ValFull(val.check_crc, ~val.check_gaps).report
        IN  /\ r = ValFull(val.check_crc, val.check_gaps).report
            /\ r.gaps = c.gaps /\ r.total_missing = c.total_missing
            /\ r.adc_count = c.adc_count /\ r.imu_count = c.imu_count
            /\ r.crc_valid = g.crc_valid /\ r.crc_expected = g.crc_expected
            /\ r.crc_computed = g.crc_computed
            /\ r.adc_count = g.adc_count /\ r.imu_count = g.imu_count
            /\ ~val.check_gaps => r.gaps = <<>> /\ r.total_missing = 0

\* C25 witness: validate_file has returned without check_gaps and with
\* check_crc for a file with a sequence jump and a wrong checksum: no gap,
\* three records counted, crc_valid false, while the run with check_gaps
\* finds the gap.
C25_Witness ==
    /\ val.pc = "done" /\ ~val.check_gaps /\ val.check_crc
    /\ val.report.gaps = <<>> /\ val.report.adc_count >= 3
    /\ ~val.report.crc_valid
    /\ ValFull(TRUE, TRUE).report.gaps # <<>>
    /\ gen.anomaly.kind = "jump"

\* ------------------------------------------------------------------------
\* C26
\* ------------------------------------------------------------------------
\* C26: every Gap validate_file has recorded has missing_count >= 1, and
\* total_missing is never negative.
C26_MissingCountPositive ==
    /\ \A i \in 1..Len(val.report.gaps) : val.report.gaps[i].missing_count >= 1
    /\ val.report.total_missing >= 0

\* What the code does instead: missing_count is the observed number minus
\* the expected one, negative for a repeated or decreasing number.
C26_MissingCountIsDifference ==
    \A i \in 1..Len(val.report.gaps) :
        LET g == val.report.gaps[i]
        IN  /\ g.missing_count = g.actual_seq - g.expected_seq
            /\ g.missing_count # 0

\* ------------------------------------------------------------------------
\* C27
\* ------------------------------------------------------------------------
\* The sequence number of the last record a full iter_adc pass yields.
LastSequence == FullAdcPass.out[Len(FullAdcPass.out)].rec.sequence_num

\* C27: when validate_file returns from a run with check_gaps that counted
\* at least one primary record, total_missing + adc_count is the sequence
\* number of the last primary record + 1; without gaps the last sequence
\* number is adc_count - 1.
C27_MissingPlusCount ==
    (val.pc = "done" /\ val.check_gaps /\ val.report.adc_count >= 1) =>
        /\ Len(FullAdcPass.out) = val.report.adc_count
        /\ val.report.total_missing + val.report.adc_count = LastSequence + 1
        /\ val.report.gaps = <<>> => LastSequence = val.report.adc_count - 1

\* C27 witness: a run over three records and an end block, with a jump in
\* the sequence numbers: total_missing is the size of the jump.
C27_Witness ==
    /\ val.pc = "done" /\ val.check_gaps
    /\ val.report.adc_count = 3 /\ gen.n = 3
    /\ val.report.total_missing = JumpSize
    /\ LastSequence = 2 + JumpSize

\* ------------------------------------------------------------------------
\* C28
\* ------------------------------------------------------------------------
\* The file has room for a footer after the header.
RoomForFooter == Size >= HEADER_SIZE + FOOTER_SIZE

\* C28: a footer is decoded only from bytes after the header: for a file of
\* 64 to 95 bytes LogFile has no footer and validate_file reports none
\* present.
C28_FooterAfterHeader ==
    (WholeHeader /\ ~RoomForFooter) =>
        /\ log.state = "ok" => log.footer.none
        /\ val.pc = "done" => ~val.report.footer_present

\* What the code does instead: the footer is decoded from the last 32 bytes
\* of any file of at least 64 bytes, and is present when they start with
\* the footer magic.
C28_FooterIsLast32Bytes ==
    WholeHeader =>
        /\ log.state = "ok" =>
              (~log.footer.none <=> U32(file, Size - FOOTER_SIZE) = FOOTER_MAGIC)
        /\ val.pc = "done" =>
              (val.report.footer_present <=> U32(file, Size - FOOTER_SIZE) = FOOTER_MAGIC)

\* The findings about footers of C10, C12 and C16 on the files that have
\* room for a footer.
C10_WithRoomForFooter == (RoomForFooter \/ gen.header = "ok") => C10_NoFooterIsWarning
C12_WithRoomForFooter == (RoomForFooter \/ gen.header = "ok") => C12_ChecksumCheck
C16_WithRoomForFooter == (RoomForFooter \/ gen.header = "ok") => C16_CountsAgainstFooter

\* ------------------------------------------------------------------------
\* C29
\* ------------------------------------------------------------------------
\* The pass has read to the end of the file, and what it read last was the
\* incomplete secondary block that follows adc_count primary records and
\* imu_count secondary records.
EndedOnShortSecondary(adc_count, imu_count, pos) ==
    LET due == HEADER_SIZE + adc_count * ADC_RECORD_SIZE
                           + imu_count * IMU_RECORD_SIZE
    IN  /\ adc_count > 0 /\ adc_count % HeaderRatio = 0
        /\ due <= Size /\ Size - due < IMU_RECORD_SIZE
        /\ pos = Size

\* floor(adc_count / R) - 1 <= imu_count <= floor(adc_count / R), the lower
\* value only after a short read of a secondary block.
CountsInRatio(adc_count, imu_count, pos) ==
    LET whole == adc_count \div HeaderRatio
    IN  /\ whole - 1 <= imu_count /\ imu_count <= whole
        /\ imu_count < whole => EndedOnShortSecondary(adc_count, imu_count, pos)

\* C29: with an interleave ratio R >= 1 in the header, the counts of a
\* validate_file run that went through its counting loop, and the primary
\* blocks read and secondary records yielded by a pass of iter_imu that
\* ended by itself, satisfy floor(adc_count / R) - 1 <= imu_count <=
\* floor(adc_count / R), and imu_count is the lower value only when the pass
\* ended on a short read of a secondary block.
C29_SecondaryCountInRatio ==
    (WholeHeader /\ HeaderRatio >= 1) =>
        /\ (val.pc = "done" /\ val.iters > 0) =>
              /\ val.report.adc_count = val.adc_count
              /\ val.report.imu_count = val.imu_count
              /\ CountsInRatio(val.adc_count, val.imu_count, val.pos)
        /\ imu.pc = "done" =>
              CountsInRatio(imu.sample_count, Len(imu.out), imu.pos)

C29_Witness ==
    /\ WholeHeader /\ HeaderRatio >= 2
    /\ val.pc = "done" /\ val.iters > 0
    /\ val.adc_count >= 2
    /\ val.imu_count = (val.adc_count \div HeaderRatio) - 1

C29_WitnessFull ==
    /\ WholeHeader /\ HeaderRatio >= 2
    /\ val.pc = "done" /\ val.adc_count >= 2
    /\ val.imu_count = val.adc_count \div HeaderRatio

C29_WitnessImu ==
    /\ WholeHeader /\ HeaderRatio >= 1
    /\ imu.pc = "done" /\ imu.sample_count >= 1
    /\ Len(imu.out) = (imu.sample_count \div HeaderRatio) - 1

\* ------------------------------------------------------------------------
\* C30
\* ------------------------------------------------------------------------
\* The most iterations a loop over the file can make.
MostIterations == (Size - HEADER_SIZE) \div ADC_RECORD_SIZE + 1

\* After iters iterations the cursor of a pass that goes on is at least
\* iters whole primary blocks past the header; the iteration that ended a
\* pass need not have read a whole block.
Consumed(pos, iters, going) ==
    /\ iters <= MostIterations
    /\ pos <= Size
    /\ going => pos >= HEADER_SIZE + iters * ADC_RECORD_SIZE
    /\ (~going /\ iters > 0) => pos >= HEADER_SIZE + (iters - 1) * ADC_RECORD_SIZE

\* C30: on a file of at least 64 bytes, every iteration of the loops of
\* iter_adc, iter_imu and validate_file either reads a whole 12-byte block
\* and moves the cursor past it or ends the pass, so no loop makes more than
\* floor((size - 64) / 12) + 1 iterations.
C30_IterationsBounded ==
    WholeHeader =>
        /\ Started(adc) => Consumed(adc.pos, adc.iters, adc.pc = "yielded")
        /\ Started(imu) => Consumed(imu.pos, imu.iters, imu.pc = "yielded")
        /\ val.iters > 0 => Consumed(val.pos, val.iters, val.pc = "loop")

\* Every step of a pass either adds iterations and moves the cursor by a
\* whole block for each, or ends the pass.
C30_IterationConsumesOrEnds ==
    [][/\ (adc.pc = "yielded" /\ adc'.pc = "yielded" /\ adc' # adc) =>
              /\ adc'.iters = adc.iters + 1
              /\ adc'.pos >= adc.pos + ADC_RECORD_SIZE
       /\ (imu.pc = "yielded" /\ imu'.pc = "yielded" /\ imu' # imu) =>
              /\ imu'.iters > imu.iters
              /\ imu'.pos >= imu.pos + (imu'.iters - imu.iters) * ADC_RECORD_SIZE
       /\ (val.pc = "loop" /\ val'.pc = "loop" /\ val' # val) =>
              /\ val'.iters = val.iters + 1
              /\ val'.pos >= val.pos + ADC_RECORD_SIZE]_vars

\* A pass that made the most iterations a file allows and ended.
C30_Witness ==
    /\ WholeHeader /\ Size >= HEADER_SIZE + 2 * ADC_RECORD_SIZE
    /\ val.pc = "done" /\ val.iters = MostIterations
    /\ adc.iters = 0 /\ imu.iters = 0

C30_WitnessAdc ==
    /\ WholeHeader /\ Size >= HEADER_SIZE + 2 * ADC_RECORD_SIZE
    /\ adc.pc = "done" /\ adc.iters = MostIterations

C30_WitnessImu ==
    /\ WholeHeader /\ HeaderRatio >= 2
    /\ imu.pc = "done" /\ imu.iters >= 3 /\ Len(imu.out) >= 1

====
